---------------------------- MODULE Spec2Model ----------------------------
(***************************************************************************)
(* BIO_V2 edge attendance recorder: the device's local SQLite store        *)
(* (device/database.py), the punch recorder add_record, the LAN sync loop  *)
(* (device/uploader.py) and the LAN receiver (server/api.py,               *)
(* server/database.py).                                                    *)
(*                                                                         *)
(* Time is the wall clock in whole seconds since an epoch midnight: a      *)
(* datetime is an integer t, its calendar date is t \div DaySecs and its   *)
(* time of day is t % DaySecs.  A stored punch_time is the ISO text        *)
(* "YYYY-MM-DD HH:MM:SS", modelled as the pair [d, s] compared the way     *)
(* SQLite compares the text (date first, then clock).                      *)
(***************************************************************************)
EXTENDS Integers, Sequences, FiniteSets, TLC

(* ------------------------------ bounds --------------------------------- *)
\* rows the device store may hold
MaxRecs == 3
\* seconds the wall clock may advance past its start, in the recorder's
\* specifications and in those of the sync loop
MaxElapsed == 180
MaxSyncElapsed == 60
\* times the LAN link may drop
MaxOutages == 1
\* calls that may raise inside the loop
MaxFaults == 2
\* messages that may arrive during one roster pull
MaxMessages == 2
\* entries of a roster list
MaxEntries == 2

(* ------------------------- program constants --------------------------- *)
DaySecs == 86400
CooldownSecs == 60
SyncLimit == 50
HalfDayLateMins == 120
HalfDayEarlyMins == 60
WaitSeconds == 15
ConnectWaitSeconds == 5

\* the wall clock at construction: half a minute before midnight, or noon
NightStart == DaySecs - 30
NoonStart == 12 * 3600
\* clock readings shortly before the boundaries of the status rules of the
\* seeded shift: 09:14:00, 10:59:30, 16:57:00, 17:58:30, 18:28:30
StatusStarts == {33240, 39570, 61020, 64710, 66510}
StartTimes == {NightStart, NoonStart} \cup StatusStarts
\* how far the clock moves between two observations of it
TickSteps == {30, 60}

Threads == {"t1", "t2"}
\* add_record(device_id, name, user_id, confidence); user_id "" stands for
\* None (both are falsy in `user_id or name`)
CallArgs ==
  { [device_id |-> "1", name |-> "Alice", user_id |-> "u1", confidence |-> 95],
    [device_id |-> "1", name |-> "Bob",   user_id |-> "",   confidence |-> 95] }
\* calls for an event without identity: user_id None, and as name either
\* the recognizer's label for an unmatched face or an empty name
NoIdentityArgs ==
  { [device_id |-> "1", name |-> "Unknown", user_id |-> "", confidence |-> 0],
    [device_id |-> "1", name |-> "",        user_id |-> "", confidence |-> 0] }
\* a call whose device_id is None: the receiver rejects such a record
BadDeviceArgs ==
  { [device_id |-> "", name |-> "Bob", user_id |-> "", confidence |-> 95] }
\* the calls made while the loop runs: one user whose records the receiver
\* accepts and one whose records lack device_id
SyncArgs == {a \in CallArgs : a.user_id # ""} \cup BadDeviceArgs

VARIABLES
  now,        \* the wall clock: datetime.now()
  shifts,     \* table shifts, in id order
  cols,       \* the columns of table attendance_log ({}: no such table yet)
  users,      \* table users, in rowid order
  pull,       \* the roster pull script test_mqtt_users: where main() is, its
              \* globals connected_event and received_payload, the sleeps of
              \* the current wait loop, and how main() ended
  log,        \* table attendance_log, in id order (row i has id i)
  call,       \* per calling thread: where it is inside add_record
  running,    \* DataUploader.running
  upc,        \* where the LAN-Uploader thread is inside _run_loop
  batch,      \* the records _sync_data fetched (record_ids and payload)
  resp,       \* the status code of the answer in flight (0: none)
  lanUp,      \* whether the LAN receiver answers
  outages,    \* how often the link has dropped
  serverLog,  \* the receiver's table attendance_log
  hist        \* history, for the claims: loopMarked (ids the LAN loop marked),
              \* failedIds (the batch of the last send, if it failed),
              \* retryOf and fetched (during a send: the failed batch it
              \* retries and the ids it fetched), duringSend (ids inserted
              \* while a request was in flight), ref (the store of the
              \* reference run without sync), ret and ref_ret (what the last
              \* add_record returned in the two runs), calls, op (the last
              \* operation that wrote the store), status (the last call of
              \* calculate_attendance_status and what it returned), query (a
              \* get_unsynced_*_records call made from outside the loop and
              \* the rows it returned), user_list (the argument of the last
              \* upsert_users call), fault (the call that raised last inside
              \* a cycle of the loop), faults (how many calls have raised),
              \* stopped (stop() has been called since the loop thread started),
              \* messages (messages that arrived during the current roster
              \* pull), pull_users (table users when that pull began) and
              \* cycle (what the loop has done since its last sleep: probes,
              \* reads of the store, requests sent, rows whose lan_synced
              \* it changed) and rosters (messages of the current roster
              \* pull that were a JSON list or a JSON object) and payload
              \* (the last message on_message was called with)

vars == <<now, shifts, cols, users, pull, log, call, running, upc, batch, resp, lanUp, outages, serverLog, hist>>

(* ------------------------------ datetime ------------------------------- *)
DateOf(t) == t \div DaySecs
ClockOf(t) == t % DaySecs
\* a variant: punch_time is stored to the minute
IsoFormatMinutes(t) == [d |-> DateOf(t), s |-> (ClockOf(t) \div 60) * 60]

\* dt_now.isoformat(sep=' ')
IsoFormat(t) == [d |-> DateOf(t), s |-> ClockOf(t)]
\* datetime.fromisoformat
FromIso(p) == p.d * DaySecs + p.s
\* SQLite's text comparison of two punch_time values
IsoLess(p, q) == p.d < q.d \/ (p.d = q.d /\ p.s < q.s)
\* int(x / 60) for a number of seconds x: truncation toward zero
TruncMinutes(x) == IF x >= 0 THEN x \div 60 ELSE -((-x) \div 60)
\* datetime.strptime(t_str, "%H:%M:%S") combined with base_date
ToDt(base_date, t_str) == base_date * DaySecs + t_str.h * 3600 + t_str.m * 60 + t_str.s

(* ------------------------------- NULL ---------------------------------- *)
\* SQL NULL / Python None, per type: a text, a number, a punch_time
NullStr == ""
NullInt == -1
NullTime == [d |-> -1, s |-> -1]

(* ------------------------------ shifts --------------------------------- *)
DefaultShift ==
  [id |-> 1, shift_name |-> "General Shift",
   start_time |-> [h |-> 9, m |-> 0, s |-> 0],
   end_time |-> [h |-> 18, m |-> 0, s |-> 0],
   late_grace_mins |-> 15, overtime_start_mins |-> 30]

\* a variant: the newest shift is returned
get_user_shift_newest(sh) == IF sh = <<>> THEN <<>> ELSE <<sh[Len(sh)]>>

\* SELECT * FROM shifts ORDER BY id ASC LIMIT 1, as a sequence of 0 or 1 rows
get_user_shift(sh) == IF sh = <<>> THEN <<>> ELSE <<sh[1]>>

(* ---------------------------- status engine ---------------------------- *)
\* a variant: 120 late minutes are a half day already
StatusInFrom120(punch_time, shift) ==
  LET shift_start == ToDt(DateOf(punch_time), shift.start_time)
      late_threshold == shift_start + shift.late_grace_mins * 60
      late_mins == TruncMinutes(punch_time - shift_start)
  IN IF punch_time > late_threshold
     THEN [status |-> IF late_mins >= HalfDayLateMins THEN "Half Day" ELSE "Late",
           late |-> late_mins, early |-> 0, ot |-> 0]
     ELSE [status |-> "Present", late |-> 0, early |-> 0, ot |-> 0]

\* a variant: overtime starts at the offset, not after it
StatusOutFromOffset(punch_time, shift) ==
  LET shift_end == ToDt(DateOf(punch_time), shift.end_time)
      early_mins == TruncMinutes(shift_end - punch_time)
      ot_mins == TruncMinutes(punch_time - shift_end)
  IN IF punch_time < shift_end
     THEN [status |-> IF early_mins > HalfDayEarlyMins THEN "Half Day (Early)"
                      ELSE "Early Departure",
           late |-> 0, early |-> early_mins, ot |-> 0]
     ELSE IF punch_time >= shift_end + shift.overtime_start_mins * 60
     THEN [status |-> "Overtime", late |-> 0, early |-> 0, ot |-> ot_mins]
     ELSE [status |-> "Present", late |-> 0, early |-> 0, ot |-> 0]

StatusIn(punch_time, shift) ==
  LET shift_start == ToDt(DateOf(punch_time), shift.start_time)
      late_threshold == shift_start + shift.late_grace_mins * 60
      late_mins == TruncMinutes(punch_time - shift_start)
  IN IF punch_time > late_threshold
     THEN [status |-> IF late_mins > HalfDayLateMins THEN "Half Day" ELSE "Late",
           late |-> late_mins, early |-> 0, ot |-> 0]
     ELSE [status |-> "Present", late |-> 0, early |-> 0, ot |-> 0]

StatusOut(punch_time, shift) ==
  LET shift_end == ToDt(DateOf(punch_time), shift.end_time)
      early_mins == TruncMinutes(shift_end - punch_time)
      ot_mins == TruncMinutes(punch_time - shift_end)
  IN IF punch_time < shift_end
     THEN [status |-> IF early_mins > HalfDayEarlyMins THEN "Half Day (Early)"
                      ELSE "Early Departure",
           late |-> 0, early |-> early_mins, ot |-> 0]
     ELSE IF punch_time > shift_end + shift.overtime_start_mins * 60
     THEN [status |-> "Overtime", late |-> 0, early |-> 0, ot |-> ot_mins]
     ELSE [status |-> "Present", late |-> 0, early |-> 0, ot |-> 0]

\* a variant: every punch is judged by the rule of an IN punch
calculate_attendance_status_in_rule(punch_time, punch_type, shiftq) ==
  IF shiftq = <<>> THEN [status |-> "Present", late |-> 0, early |-> 0, ot |-> 0]
  ELSE StatusIn(punch_time, shiftq[1])

\* shiftq is the sequence get_user_shift returned (empty: no shift)
calculate_attendance_status(punch_time, punch_type, shiftq) ==
  IF shiftq = <<>> THEN [status |-> "Present", late |-> 0, early |-> 0, ot |-> 0]
  ELSE IF punch_type = "IN" THEN StatusIn(punch_time, shiftq[1])
  ELSE IF punch_type = "OUT" THEN StatusOut(punch_time, shiftq[1])
  ELSE [status |-> "Present", late |-> 0, early |-> 0, ot |-> 0]

\* no call of calculate_attendance_status yet
NoStatus ==
  [punch_type |-> "", result |-> [status |-> "Present", late |-> 0, early |-> 0, ot |-> 0]]

\* no get_unsynced_*_records call from outside the loop yet
NoQuery == [channel |-> "", limit |-> 0, rows |-> <<>>]

\* a shift other than the seeded one, for the status engine alone
EveningShift ==
  [id |-> 1, shift_name |-> "Evening Shift",
   start_time |-> [h |-> 14, m |-> 30, s |-> 30],
   end_time |-> [h |-> 22, m |-> 15, s |-> 0],
   late_grace_mins |-> 5, overtime_start_mins |-> 45]

(* ------------------------------- store --------------------------------- *)
Ids(lg) == 1..Len(lg)

\* rows of one user on one calendar date
TodayRows(lg, user_id, today) ==
  {i \in Ids(lg) : lg[i].user_id = user_id /\ lg[i].punch_date = today}

\* a variant: the query also asks for lan_synced = 0
LastPunchIdsUnsynced(lg, user_id, today) ==
  {i \in TodayRows(lg, user_id, today) :
     /\ lg[i].lan_synced = 0
     /\ \A j \in TodayRows(lg, user_id, today) :
          lg[j].lan_synced = 0 => ~IsoLess(lg[i].punch_time, lg[j].punch_time)}

\* ORDER BY punch_time DESC LIMIT 1: the ids the query may return (more than
\* one only when two rows carry the same punch_time)
LastPunchIds(lg, user_id, today) ==
  LET rows == TodayRows(lg, user_id, today)
  IN {i \in rows : \A j \in rows : ~IsoLess(lg[i].punch_time, lg[j].punch_time)}

\* user_id = user_id or name
EffectiveUser(args) == IF args.user_id = "" THEN args.name ELSE args.user_id

\* if last_punch and (dt_now - last_dt).total_seconds() < 60
CooldownActive(dt_now, last) ==
  last # <<>> /\ dt_now - FromIso(last[1].punch_time) < CooldownSecs

\* punch_type = 'IN'; 'OUT' if last_punch and last_punch['punch_type'] == 'IN'
TogglePunchType(last) ==
  IF last # <<>> /\ last[1].punch_type = "IN" THEN "OUT" ELSE "IN"

\* the row add_record inserts
NewRow(lg, sh, args, dt_now, last) ==
  LET punch_type == TogglePunchType(last)
      shiftq == get_user_shift(sh)
      st == calculate_attendance_status(dt_now, punch_type, shiftq)
  IN [id |-> Len(lg) + 1,
      user_id |-> EffectiveUser(args), name |-> args.name, device_id |-> args.device_id,
      punch_time |-> IsoFormat(dt_now), punch_date |-> DateOf(dt_now),
      punch_clock |-> ClockOf(dt_now), punch_type |-> punch_type,
      shift_id |-> IF shiftq = <<>> THEN 0 ELSE shiftq[1].id,
      attendance_status |-> st.status, late_minutes |-> st.late,
      early_departure_minutes |-> st.early, overtime_minutes |-> st.ot,
      confidence |-> args.confidence, lan_synced |-> 0, mqtt_synced |-> 0,
      timestamp |-> NullInt, synced |-> NullInt]

IdleCall == [pc |-> "idle", args |-> CHOOSE a \in CallArgs : TRUE, dt_now |-> 0,
             last |-> <<>>, ref_last |-> <<>>]

(* ------------------------------ _init_db ------------------------------- *)
\* the columns CREATE TABLE gives a new attendance_log
TableColumns ==
  {"id", "user_id", "name", "device_id", "punch_time", "punch_date", "punch_clock",
   "punch_type", "shift_id", "attendance_status", "late_minutes",
   "early_departure_minutes", "overtime_minutes", "confidence", "lan_synced",
   "mqtt_synced", "created_at"}

\* new_columns: what the migration adds to an older table
NewColumns ==
  {"user_id", "punch_time", "punch_date", "punch_clock", "punch_type", "shift_id",
   "attendance_status", "late_minutes", "early_departure_minutes", "overtime_minutes",
   "confidence", "lan_synced", "mqtt_synced", "created_at"}

\* the DEFAULT of the added columns that have one (the others add NULL)
ColumnDefault ==
  [attendance_status |-> "Present", late_minutes |-> 0, early_departure_minutes |-> 0,
   overtime_minutes |-> 0, lan_synced |-> 0, mqtt_synced |-> 0]

\* ALTER TABLE attendance_log ADD COLUMN, for every column of `added`
AddColumns(row, added) ==
  [f \in DOMAIN row |-> IF f \in added /\ f \in DOMAIN ColumnDefault
                        THEN ColumnDefault[f] ELSE row[f]]

\* UPDATE ... SET punch_time = datetime(timestamp, 'unixepoch', 'localtime')
\* WHERE punch_time IS NULL AND timestamp IS NOT NULL
BackfillPunchTime(row) ==
  IF row.punch_time = NullTime /\ row.timestamp # NullInt
  THEN [row EXCEPT !.punch_time = IsoFormat(row.timestamp)] ELSE row

\* a variant: the UPDATE without its WHERE synced = 1
CopyLegacySyncedAll(row) ==
  IF row.synced # NullInt
  THEN [row EXCEPT !.lan_synced = row.synced, !.mqtt_synced = row.synced] ELSE row

\* a variant: the legacy flag is copied to lan_synced only
CopyLegacySyncedLanOnly(row) ==
  IF row.synced = 1 THEN [row EXCEPT !.lan_synced = row.synced] ELSE row

\* UPDATE ... SET lan_synced = synced, mqtt_synced = synced WHERE synced = 1
CopyLegacySynced(row) ==
  IF row.synced = 1
  THEN [row EXCEPT !.lan_synced = row.synced, !.mqtt_synced = row.synced] ELSE row

\* a variant: the default shift is seeded whatever table shifts holds
InitDbOfSeedsAlways(sh, cs, lg) ==
  LET existing_cols == IF cs = {} THEN TableColumns ELSE cs
      added == NewColumns \ existing_cols
      lg1 == [i \in Ids(lg) |-> AddColumns(lg[i], added)]
      lg2 == IF "timestamp" \in existing_cols /\ "punch_time" \notin existing_cols
             THEN [i \in Ids(lg) |-> BackfillPunchTime(lg1[i])] ELSE lg1
      lg3 == IF "synced" \in existing_cols
             THEN [i \in Ids(lg) |-> CopyLegacySynced(lg2[i])] ELSE lg2
  IN [shifts |-> Append(sh, [DefaultShift EXCEPT !.id = Len(sh) + 1]),
      cols |-> existing_cols \cup NewColumns,
      log |-> lg3]

\* LocalDatabase._init_db on a file holding tables sh and lg, lg with columns cs
InitDbOf(sh, cs, lg) ==
  LET existing_cols == IF cs = {} THEN TableColumns ELSE cs
      added == NewColumns \ existing_cols
      lg1 == [i \in Ids(lg) |-> AddColumns(lg[i], added)]
      lg2 == IF "timestamp" \in existing_cols /\ "punch_time" \notin existing_cols
             THEN [i \in Ids(lg) |-> BackfillPunchTime(lg1[i])] ELSE lg1
      lg3 == IF "synced" \in existing_cols
             THEN [i \in Ids(lg) |-> CopyLegacySynced(lg2[i])] ELSE lg2
  IN [shifts |-> IF sh = <<>> THEN <<DefaultShift>> ELSE sh,
      cols |-> existing_cols \cup NewColumns,
      log |-> lg3]

\* a file that does not exist yet
NoFile == [shifts |-> <<>>, cols |-> {}, log |-> <<>>]

\* a row of an older file: (id, device_id, name, timestamp, synced)
LegacyRow(id, timestamp, synced) ==
  [id |-> id, user_id |-> NullStr, name |-> "Carol", device_id |-> "1",
   punch_time |-> NullTime, punch_date |-> NullInt, punch_clock |-> NullInt,
   punch_type |-> NullStr, shift_id |-> NullInt, attendance_status |-> NullStr,
   late_minutes |-> NullInt, early_departure_minutes |-> NullInt,
   overtime_minutes |-> NullInt, confidence |-> NullInt, lan_synced |-> NullInt,
   mqtt_synced |-> NullInt, timestamp |-> timestamp, synced |-> synced]

\* an older file with one delivered and one undelivered record
LegacyFile ==
  [shifts |-> <<>>, cols |-> {"id", "device_id", "name", "timestamp", "synced"},
   log |-> <<LegacyRow(1, NoonStart - 7200, 1), LegacyRow(2, NoonStart - 3600, 0)>>]

\* an initialized file to which a second shift was added from configuration
ConfiguredFile ==
  [shifts |-> <<DefaultShift, [EveningShift EXCEPT !.id = 2]>>,
   cols |-> TableColumns, log |-> <<>>]

\* whether _init_db has run on the file
Ready == NewColumns \subseteq cols

(* ------------------------------- roster -------------------------------- *)
\* a value under a key of a roster entry (a dict decoded from JSON): the key
\* is missing, or holds a string or an integer; text is what str() gives
Missing == [kind |-> "none", text |-> ""]
JsonStr(x) == [kind |-> "str", text |-> x]
JsonInt(x) == [kind |-> "int", text |-> x]

\* Python's truth value of u.get(key)
Truthy(v) ==
  CASE v.kind = "none" -> FALSE
    [] v.kind = "str" -> v.text # ""
    [] v.kind = "int" -> v.text # "0"

\* a or b
PyOr(a, b) == IF Truthy(a) THEN a ELSE b

\* str(v)
PyStr(v) == v.text

\* datetime('now','localtime')
SqlNow(t) == [d |-> DateOf(t), s |-> ClockOf(t)]

\* a variant: a plain INSERT, without ON CONFLICT(user_id) DO UPDATE
UpsertOneInsertOnly(us, u, ts) ==
  LET uid == PyOr(u.user_id, u.id)
      name == PyOr(u.name, u.employee_name)
  IN IF Truthy(uid) /\ Truthy(name)
     THEN Append(us, [user_id |-> PyStr(uid), name |-> PyStr(name), synced_at |-> ts])
     ELSE us

\* a variant: only the keys user_id and name are read
UpsertOneCanonicalOnly(us, u, ts) ==
  IF Truthy(u.user_id) /\ Truthy(u.name)
  THEN IF \E i \in DOMAIN us : us[i].user_id = PyStr(u.user_id)
       THEN [i \in DOMAIN us |->
               IF us[i].user_id = PyStr(u.user_id)
               THEN [us[i] EXCEPT !.name = PyStr(u.name), !.synced_at = ts]
               ELSE us[i]]
       ELSE Append(us, [user_id |-> PyStr(u.user_id), name |-> PyStr(u.name),
                        synced_at |-> ts])
  ELSE us

\* the body of upsert_users's loop for one entry u
UpsertOne(us, u, ts) ==
  LET uid == PyOr(u.user_id, u.id)
      name == PyOr(u.name, u.employee_name)
  IN IF Truthy(uid) /\ Truthy(name)
     THEN IF \E i \in DOMAIN us : us[i].user_id = PyStr(uid)
          THEN [i \in DOMAIN us |->
                  IF us[i].user_id = PyStr(uid)
                  THEN [us[i] EXCEPT !.name = PyStr(name), !.synced_at = ts]
                  ELSE us[i]]
          ELSE Append(us, [user_id |-> PyStr(uid), name |-> PyStr(name),
                           synced_at |-> ts])
     ELSE us

\* a variant: the loop ends at the first entry it cannot use
upsert_users_until_invalid(us, user_list, ts) ==
  LET RECURSIVE Loop(_, _)
      Loop(acc, k) ==
        IF k > Len(user_list) THEN acc
        ELSE IF ~(/\ Truthy(PyOr(user_list[k].user_id, user_list[k].id))
                  /\ Truthy(PyOr(user_list[k].name, user_list[k].employee_name)))
        THEN acc
        ELSE Loop(UpsertOne(acc, user_list[k], ts), k + 1)
  IN Loop(us, 1)

\* LocalDatabase.upsert_users(user_list) on table users, at clock reading ts
upsert_users(us, user_list, ts) ==
  LET RECURSIVE Loop(_, _)
      Loop(acc, k) ==
        IF k > Len(user_list) THEN acc
        ELSE Loop(UpsertOne(acc, user_list[k], ts), k + 1)
  IN IF user_list = <<>> THEN us ELSE Loop(us, 1)

\* roster entries: two names for user 101, user 102 under the alternative
\* keys with an integer id, an entry without identifier, one without name
RosterEntries ==
  { [user_id |-> JsonStr("101"), id |-> Missing, name |-> JsonStr("Ann"),
     employee_name |-> Missing],
    [user_id |-> JsonStr("101"), id |-> Missing, name |-> JsonStr("Ann B"),
     employee_name |-> Missing],
    [user_id |-> Missing, id |-> JsonInt("102"), name |-> JsonStr(""),
     employee_name |-> JsonStr("Bob")],
    [user_id |-> JsonStr(""), id |-> Missing, name |-> JsonStr("Cy"),
     employee_name |-> Missing],
    [user_id |-> JsonStr("103"), id |-> Missing, name |-> Missing,
     employee_name |-> JsonStr("")] }

\* the lists upsert_users is called with
RosterLists ==
  UNION {[1..n -> RosterEntries] : n \in 0..MaxEntries}

(* ----------------------------- roster pull ----------------------------- *)
\* time.sleep(0.2) and time.sleep(0.5): sleeps per second in the two wait loops
ConnectSleepsPerSec == 5
WaitSleepsPerSec == 2
\* deadline = time.time() + 5 / + WAIT_SECONDS, counted in sleeps of the loop
ConnectPolls == ConnectWaitSeconds * ConnectSleepsPerSec
WaitPolls == WaitSeconds * WaitSleepsPerSec

\* main() has not been called. Beside the script's own state: online (the
\* client holds a connection the broker has accepted), out (the client's
\* calls on that connection the broker has not handled yet, oldest first),
\* subscribed (the broker holds this client's subscription to the receive
\* topic), requests (get-users requests the broker has passed on and the
\* dashboard has not answered yet)
IdlePull == [pc |-> "idle", connected_event |-> FALSE, waited |-> 0,
             received_payload |-> <<>>, result |-> "",
             online |-> FALSE, out |-> <<>>, subscribed |-> FALSE, requests |-> 0]

\* a variant: the request is published before the subscription is made
on_connect_calls_publish_first(rc) ==
  IF rc = 0 THEN <<"publish", "subscribe">> ELSE <<>>

\* the calls on_connect makes on the client, in its order:
\* client.subscribe(MQTT_TOPIC_RECEIVE_USERS), client.publish(MQTT_TOPIC_REQUEST_USERS)
on_connect_calls(rc) ==
  IF rc = 0 THEN <<"subscribe", "publish">> ELSE <<>>

\* a variant: the deadline of the wait is counted in whole seconds
WaitOverLate(p) == p.received_payload # <<>> \/ p.waited >= WaitPolls * WaitSleepsPerSec

\* the negation of `while not received_payload and time.time() < deadline`
WaitOver(p) == p.received_payload # <<>> \/ p.waited >= WaitPolls

\* a dict without any of the four keys
NoEntry == [user_id |-> Missing, id |-> Missing, name |-> Missing,
            employee_name |-> Missing]

\* the list the dashboard simulator answers every request with
EMPLOYEES ==
  << [NoEntry EXCEPT !.user_id = JsonStr("101"), !.name = JsonStr("Atharv Kulkarni")],
     [NoEntry EXCEPT !.user_id = JsonStr("102"), !.name = JsonStr("Ravi Sharma")],
     [NoEntry EXCEPT !.user_id = JsonStr("103"), !.name = JsonStr("Manoj Patil")],
     [NoEntry EXCEPT !.user_id = JsonStr("104"), !.name = JsonStr("Priya Desai")] >>

\* a message: its kind, its entries when it is a list, itself when it is a
\* single object
NoPayload == [kind |-> "none", value |-> <<>>, entry |-> NoEntry]
ListPayload(l) == [kind |-> "list", value |-> l, entry |-> NoEntry]
DictPayload(e) == [kind |-> "dict", value |-> <<>>, entry |-> e]

\* what arrives on the receive topic: a JSON list of entries (possibly
\* empty), a JSON object, another JSON value, or bytes that are not JSON
PullPayloads ==
  {ListPayload(l) : l \in {l \in RosterLists : Len(l) <= 1}}
    \cup {DictPayload(e) : e \in RosterEntries}
    \cup {[NoPayload EXCEPT !.kind = "other"], [NoPayload EXCEPT !.kind = "notjson"]}

\* entries given with the alternative keys only (a string or an integer
\* id), with the key name beside id, and the same with the usual keys
AliasEntries ==
  { [NoEntry EXCEPT !.id = JsonStr("201"), !.employee_name = JsonStr("Dee")],
    [NoEntry EXCEPT !.id = JsonInt("202"), !.employee_name = JsonStr("Ed")],
    [NoEntry EXCEPT !.id = JsonStr("201"), !.name = JsonStr("Dee D")],
    [NoEntry EXCEPT !.user_id = JsonStr("201"), !.name = JsonStr("Dee")],
    [NoEntry EXCEPT !.user_id = JsonInt("202"), !.name = JsonStr("Ed")] }

AliasPayloads ==
  {ListPayload(<<e>>) : e \in AliasEntries} \cup {DictPayload(e) : e \in AliasEntries}

\* a variant: a message that is a single object is not stored
AsUserListListsOnly(payload) == payload.value

\* the list on_message hands to upsert_users and keeps as received_payload:
\* payload for a list, [payload] for a dict
AsUserList(payload) ==
  IF payload.kind = "dict" THEN <<payload.entry>> ELSE payload.value

(* ------------------------ sync queries and marks ----------------------- *)
\* LIMIT ?
Take(q, n) == IF Len(q) <= n THEN q ELSE SubSeq(q, 1, n)

\* a variant: the query without its WHERE lan_synced = 0
get_records_any_flag(lg, limit) ==
  Take(lg, limit)

\* a variant: every unsynced row is returned, whatever the limit
get_unsynced_lan_unlimited(lg, limit) ==
  LET Unsynced(r) == r.lan_synced = 0 IN SelectSeq(lg, Unsynced)

\* SELECT * FROM attendance_log WHERE lan_synced = 0 ORDER BY id ASC LIMIT ?
get_unsynced_lan_records(lg, limit) ==
  LET Unsynced(r) == r.lan_synced = 0
  IN Take(SelectSeq(lg, Unsynced), limit)

\* a variant: the query without its LIMIT
get_unsynced_mqtt_unlimited(lg, limit) ==
  LET Unsynced(r) == r.mqtt_synced = 0
  IN SelectSeq(lg, Unsynced)

\* SELECT * FROM attendance_log WHERE mqtt_synced = 0 ORDER BY id ASC LIMIT ?
get_unsynced_mqtt_records(lg, limit) ==
  LET Unsynced(r) == r.mqtt_synced = 0
  IN Take(SelectSeq(lg, Unsynced), limit)

\* a variant: the UPDATE without its WHERE id IN (...)
mark_lan_synced_all(lg, record_ids) ==
  [i \in Ids(lg) |-> [lg[i] EXCEPT !.lan_synced = 1]]

\* variants: the UPDATE sets both flags
mark_lan_and_mqtt(lg, record_ids) ==
  [i \in Ids(lg) |-> IF i \in record_ids
                     THEN [lg[i] EXCEPT !.lan_synced = 1, !.mqtt_synced = 1] ELSE lg[i]]

mark_mqtt_and_lan(lg, record_ids) ==
  [i \in Ids(lg) |-> IF i \in record_ids
                     THEN [lg[i] EXCEPT !.mqtt_synced = 1, !.lan_synced = 1] ELSE lg[i]]

\* a variant: only the newest record of the list is marked
mark_lan_synced_newest(lg, record_ids) ==
  [i \in Ids(lg) |-> IF i \in record_ids /\ \A j \in record_ids : j <= i
                     THEN [lg[i] EXCEPT !.lan_synced = 1] ELSE lg[i]]

\* UPDATE attendance_log SET lan_synced=1 WHERE id IN (record_ids)
mark_lan_synced(lg, record_ids) ==
  [i \in Ids(lg) |-> IF i \in record_ids THEN [lg[i] EXCEPT !.lan_synced = 1] ELSE lg[i]]

\* UPDATE attendance_log SET mqtt_synced=1 WHERE id IN (record_ids)
mark_mqtt_synced(lg, record_ids) ==
  [i \in Ids(lg) |-> IF i \in record_ids THEN [lg[i] EXCEPT !.mqtt_synced = 1] ELSE lg[i]]

\* the legacy alias: mark_lan_synced, then mark_mqtt_synced
mark_as_synced(lg, record_ids) ==
  mark_mqtt_synced(mark_lan_synced(lg, record_ids), record_ids)

(* --------------------------- LAN receiver ------------------------------ *)
\* the JSON object _sync_data builds for one record
Payload(r) ==
  [device_id |-> r.device_id, user_id |-> r.user_id, name |-> r.name,
   punch_time |-> r.punch_time, punch_date |-> r.punch_date,
   punch_clock |-> r.punch_clock, punch_type |-> r.punch_type,
   attendance_status |-> r.attendance_status, late_minutes |-> r.late_minutes,
   early_departure_minutes |-> r.early_departure_minutes,
   overtime_minutes |-> r.overtime_minutes, confidence |-> r.confidence]

\* AttendanceRecord: device_id is the one required field (None is rejected)
Validates(payload) == \A k \in 1..Len(payload) : payload[k].device_id # ""

\* receive_attendance: every record whose insert_attendance succeeded is
\* appended; failed is the set of positions whose insert raised
Received(srv, payload, failed) ==
  LET at == [k \in 1..Len(payload) |-> [k |-> k, record |-> payload[k]]]
      Saved(e) == e.k \notin failed
      saved == SelectSeq(at, Saved)
  IN srv \o [k \in 1..Len(saved) |-> saved[k].record]

\* a cycle of the loop in which nothing has been done yet
NoCycle == [probes |-> 0, reads |-> 0, sends |-> 0, marked |-> 0]

\* the rows whose lan_synced differs between two states of the store
LanChanged(lg, lg2) == {i \in Ids(lg) : lg2[i].lan_synced # lg[i].lan_synced}

\* the status the device sees for a request that reached the receiver
StatusCode(payload) == IF Validates(payload) THEN 200 ELSE 422

\* resp.status_code == 200
IsSuccess(status_code) == status_code = 200

BatchIds(b) == {b[k].id : k \in 1..Len(b)}
BatchIdSeq(b) == [k \in 1..Len(b) |-> b[k].id]
BatchPayload(b) == [k \in 1..Len(b) |-> Payload(b[k])]

(* ------------------------------ initial -------------------------------- *)
\* everything but the store
InitRest(t0) ==
  /\ now = t0
  /\ users = <<>>
  /\ pull = IdlePull
  /\ call = [t \in Threads |-> IdleCall]
  /\ running = FALSE
  /\ upc = "none"
  /\ batch = <<>>
  /\ resp = 0
  /\ lanUp = TRUE
  /\ outages = 0
  /\ serverLog = <<>>
  /\ hist = [loopMarked |-> {}, failedIds |-> <<>>, retryOf |-> <<>>, fetched |-> <<>>,
             duringSend |-> {}, ref |-> <<>>, ret |-> 0, ref_ret |-> 0, calls |-> 0,
             op |-> "", status |-> NoStatus, query |-> NoQuery, user_list |-> <<>>, fault |-> "",
             faults |-> 0, stopped |-> FALSE, messages |-> 0, pull_users |-> <<>>,
             cycle |-> NoCycle, rosters |-> 0, payload |-> NoPayload,
             drops |-> 0, lost |-> 0]

\* LocalDatabase() has been constructed on a new file
InitAt(t0) ==
  /\ InitRest(t0)
  /\ shifts = InitDbOf(NoFile.shifts, NoFile.cols, NoFile.log).shifts
  /\ cols = InitDbOf(NoFile.shifts, NoFile.cols, NoFile.log).cols
  /\ log = InitDbOf(NoFile.shifts, NoFile.cols, NoFile.log).log

Init == InitAt(NoonStart)

(* ----------------------------- wall clock ------------------------------ *)
Tick(window) ==
  /\ \E d \in TickSteps, s \in StartTimes :
       /\ s <= now
       /\ now + d <= s + window
       /\ now' = now + d
  /\ UNCHANGED <<shifts, cols, users, pull, log, call, running, upc, batch, resp, lanUp, outages, serverLog, hist>>

(* ---------------------------- transactions ----------------------------- *)
\* a variant: the connection that read the batch stays open, in its
\* transaction, until the batch has been marked
LoopTxnAcrossSend(pc) == IF pc \in {"post", "recv"} THEN "write" ELSE "none"

\* the store transaction the loop thread is in when it stands at pc: each
\* `with _get_conn() as conn:` block lies inside get_unsynced_lan_records or
\* inside mark_lan_synced, which are called and return within one step
\* (SyncFetch, PostReturns), so between the loop's steps there is none
LoopTxn(pc) == "none"

\* an INSERT commits unless another connection is in a write transaction
\* (journal_mode=WAL: readers do not block the writer)
CanCommit == LoopTxn(upc) # "write"

(* ----------------------------- add_record ------------------------------ *)
\* dt_now = datetime.now()
AddBegin(t, argset) ==
  /\ call[t].pc = "idle"
  /\ Len(log) < MaxRecs
  /\ \E a \in argset :
       call' = [call EXCEPT ![t] = [IdleCall EXCEPT !.pc = "read", !.args = a, !.dt_now = now]]
  /\ UNCHANGED <<now, shifts, cols, users, pull, log, running, upc, batch, resp, lanUp, outages, serverLog, hist>>

\* the row a SELECT ... LIMIT 1 returns, as a sequence of 0 or 1 rows, when
\* the engine resolves a tie of punch_time by taking row `pick` if it can
LastPunch(lg, user_id, today, pick) ==
  LET cands == LastPunchIds(lg, user_id, today)
  IN IF cands = {} THEN <<>>
     ELSE IF pick \in cands THEN <<lg[pick]>>
     ELSE <<lg[CHOOSE i \in cands : TRUE]>>

\* last_punch = self.get_last_punch_today(user_id): date.today() is read here
AddReadLast(t) ==
  /\ call[t].pc = "read"
  /\ LET user_id == EffectiveUser(call[t].args)
         cands == LastPunchIds(log, user_id, DateOf(now))
     IN \E pick \in (IF cands = {} THEN {0} ELSE cands) :
          call' = [call EXCEPT ![t].pc = "insert",
                               ![t].last = LastPunch(log, user_id, DateOf(now), pick),
                               ![t].ref_last = LastPunch(hist.ref, user_id, DateOf(now), pick)]
  /\ UNCHANGED <<now, shifts, cols, users, pull, log, running, upc, batch, resp, lanUp, outages, serverLog, hist>>

\* a variant: a suppressed call returns the id of the last punch
AddOutcomeLastId(lg, sh, args, dt_now, last) ==
  IF CooldownActive(dt_now, last)
  THEN [ret |-> last[1].id, log |-> lg]
  ELSE [ret |-> Len(lg) + 1, log |-> Append(lg, NewRow(lg, sh, args, dt_now, last))]

\* the value add_record returns and the store it leaves, given what it read
AddOutcome(lg, sh, args, dt_now, last) ==
  IF CooldownActive(dt_now, last)
  THEN [ret |-> 0, log |-> lg]
  ELSE [ret |-> Len(lg) + 1, log |-> Append(lg, NewRow(lg, sh, args, dt_now, last))]

\* the cooldown test, the toggle, the status and the INSERT
AddFinish(t) ==
  /\ call[t].pc = "insert"
  /\ CanCommit
  /\ LET out == AddOutcome(log, shifts, call[t].args, call[t].dt_now, call[t].last)
         ref == AddOutcome(hist.ref, shifts, call[t].args, call[t].dt_now, call[t].ref_last)
     IN /\ log' = out.log
        /\ call' = [call EXCEPT ![t] = IdleCall]
        /\ hist' = [hist EXCEPT !.ref = ref.log, !.ret = out.ret, !.ref_ret = ref.ret,
                                !.calls = 1, !.op = "add_record",
                                !.duringSend = IF out.ret # 0 /\ upc = "recv"
                                               THEN @ \cup {out.ret} ELSE @]
  /\ UNCHANGED <<now, shifts, cols, users, pull, running, upc, batch, resp, lanUp, outages, serverLog>>

\* one whole add_record call, not overlapped by another: the clock is read
\* for dt_now, it advances by `d` seconds while the call runs, and
\* get_last_punch_today reads date.today() after that
AddRecord(argset, window, elapsed, cap) ==
  /\ Ready
  /\ CanCommit
  /\ Len(log) < cap
  /\ \E a \in argset, d \in elapsed, s \in StartTimes :
       /\ s <= now
       /\ now + d <= s + window
       /\ now' = now + d
       /\ LET user_id == EffectiveUser(a)
              cands == LastPunchIds(log, user_id, DateOf(now'))
          IN \E pick \in (IF cands = {} THEN {0} ELSE cands) :
               LET out == AddOutcome(log, shifts, a, now,
                                     LastPunch(log, user_id, DateOf(now'), pick))
                   ref == AddOutcome(hist.ref, shifts, a, now,
                                     LastPunch(hist.ref, user_id, DateOf(now'), pick))
               IN /\ log' = out.log
                  /\ hist' = [hist EXCEPT !.ref = ref.log, !.ret = out.ret,
                                          !.ref_ret = ref.ret, !.calls = 1,
                                          !.op = "add_record",
                                          !.duringSend = IF out.ret # 0 /\ upc = "recv"
                                                         THEN @ \cup {out.ret} ELSE @]
  /\ UNCHANGED <<shifts, cols, users, pull, call, running, upc, batch, resp, lanUp, outages, serverLog>>

\* calculate_attendance_status(datetime.now(), punch_type, get_user_shift())
StatusCall ==
  /\ hist.status = NoStatus
  /\ \E punch_type \in {"IN", "OUT"} :
       hist' = [hist EXCEPT !.status =
                  [punch_type |-> punch_type,
                   result |-> calculate_attendance_status(now, punch_type,
                                                          get_user_shift(shifts))]]
  /\ UNCHANGED <<now, shifts, cols, users, pull, log, call, running, upc, batch, resp, lanUp, outages, serverLog>>

(* ------------------------------ uploader ------------------------------- *)
\* DataUploader.start (one loop thread at a time)
Start ==
  /\ upc \in {"none", "done"}
  /\ running' = TRUE
  /\ upc' = "top"
  /\ hist' = [hist EXCEPT !.stopped = FALSE]
  /\ UNCHANGED <<now, shifts, cols, users, pull, log, call, batch, resp, lanUp, outages, serverLog>>

\* DataUploader.stop; join(timeout=5) may return while the thread is still
\* inside its cycle or its sleep
Stop ==
  /\ running
  /\ running' = FALSE
  /\ hist' = [hist EXCEPT !.stopped = TRUE]
  /\ UNCHANGED <<now, shifts, cols, users, pull, log, call, upc, batch, resp, lanUp, outages, serverLog>>

\* DataUploader.start called after stop() has returned while the thread
\* stop() signalled is still alive: self.running is set again. upc stays
\* with that thread; the thread start() creates runs the same loop beside it
\* and is not followed here.
StartAgain ==
  /\ ~running
  /\ upc \notin {"none", "done"}
  /\ running' = TRUE
  /\ UNCHANGED <<now, shifts, cols, users, pull, log, call, upc, batch, resp, lanUp, outages, serverLog, hist>>

\* a variant: _sync_data is called whatever the probe returned
AfterProbeAlwaysSync(reachable) == "sync"

\* if _is_lan_reachable(...): self._sync_data() else: (debug log)
AfterProbe(reachable) == IF reachable THEN "sync" ELSE "sleep"

\* while self.running: if _is_lan_reachable(...): ... else: (debug log)
LoopTop ==
  /\ upc = "top"
  /\ upc' = IF ~running THEN "done" ELSE AfterProbe(lanUp)
  /\ hist' = IF running THEN [hist EXCEPT !.cycle.probes = @ + 1] ELSE hist
  /\ UNCHANGED <<now, shifts, cols, users, pull, log, call, running, batch, resp, lanUp, outages, serverLog>>

\* _sync_data: records = get_unsynced_lan_records(limit=50); payload, record_ids
SyncFetch ==
  /\ upc = "sync"
  /\ batch' = get_unsynced_lan_records(log, SyncLimit)
  /\ upc' = IF batch' = <<>> THEN "sleep" ELSE "post"
  /\ hist' = [hist EXCEPT !.duringSend = {}, !.retryOf = hist.failedIds,
                          !.fetched = BatchIdSeq(batch'), !.failedIds = <<>>,
                          !.cycle.reads = @ + 1]
  /\ UNCHANGED <<now, shifts, cols, users, pull, log, call, running, resp, lanUp, outages, serverLog>>

\* the positions of a batch of n records whose insert_attendance may raise:
\* any of a batch the recorder's specifications can build, none or all of a
\* longer one
InsertFailures(n) == IF n <= MaxRecs + 1 THEN SUBSET (1..n) ELSE {{}, 1..n}

\* requests.post: the request reaches the receiver, which stores the records
\* (each insert may fail) and answers
PostDelivered ==
  /\ upc = "post"
  /\ lanUp
  /\ \E failed \in InsertFailures(Len(batch)) :
       serverLog' = IF Validates(BatchPayload(batch))
                    THEN Received(serverLog, BatchPayload(batch), failed)
                    ELSE serverLog
  /\ resp' = StatusCode(BatchPayload(batch))
  /\ upc' = "recv"
  /\ hist' = [hist EXCEPT !.cycle.sends = @ + 1]
  /\ UNCHANGED <<now, shifts, cols, users, pull, log, call, running, batch, lanUp, outages>>

\* requests.post raises RequestException: the request never arrived
PostFailed ==
  /\ upc = "post"
  /\ ~lanUp
  /\ upc' = "sleep"
  /\ batch' = <<>>
  /\ hist' = [hist EXCEPT !.failedIds = BatchIdSeq(batch), !.retryOf = <<>>,
                          !.fetched = <<>>, !.cycle.sends = @ + 1]
  /\ UNCHANGED <<now, shifts, cols, users, pull, log, call, running, resp, lanUp, outages, serverLog>>

\* a variant: the batch is marked on any answer
AfterAnyResponse(lg, record_ids, ok, status_code) ==
  IF ok THEN [i \in Ids(lg) |-> IF i \in record_ids THEN [lg[i] EXCEPT !.lan_synced = 1]
                                ELSE lg[i]]
  ELSE lg

\* what _sync_data does with the answer: mark the batch on 200, else nothing;
\* ok is FALSE when the answer was lost (timeout)
AfterResponse(lg, record_ids, ok, status_code) ==
  IF ok /\ IsSuccess(status_code) THEN mark_lan_synced(lg, record_ids) ELSE lg

\* the response arrives (or the wait times out because the link dropped)
PostReturns ==
  /\ upc = "recv"
  /\ log' = AfterResponse(log, BatchIds(batch), lanUp, resp)
  /\ hist' = IF lanUp /\ IsSuccess(resp)
             THEN [hist EXCEPT !.loopMarked = @ \cup BatchIds(batch),
                               !.op = "mark_lan_synced",
                               !.failedIds = <<>>, !.retryOf = <<>>, !.fetched = <<>>,
                               !.cycle.marked = @ + Cardinality(LanChanged(log, log'))]
             ELSE [hist EXCEPT !.failedIds = BatchIdSeq(batch), !.retryOf = <<>>,
                               !.fetched = <<>>]
  /\ upc' = "sleep"
  /\ batch' = <<>>
  /\ resp' = 0
  /\ UNCHANGED <<now, shifts, cols, users, pull, call, running, lanUp, outages, serverLog>>

\* time.sleep(self.interval), then back to the while test
Sleep ==
  /\ upc = "sleep"
  /\ upc' = "top"
  /\ hist' = [hist EXCEPT !.cycle = NoCycle]
  /\ UNCHANGED <<now, shifts, cols, users, pull, log, call, running, batch, resp, lanUp, outages, serverLog>>

\* a variant: no handler around the cycle, the exception ends the thread
AfterExceptNoHandler == "done"

\* where _run_loop continues when its try block raised: `except Exception`
\* logs, and time.sleep(self.interval) follows the try statement
AfterExcept == "sleep"

\* an exception raised inside the try block by the call `what`: the cycle's
\* batch and answer are dropped with _sync_data's frame
Raised(what) ==
  /\ hist.faults < MaxFaults
  /\ upc' = AfterExcept
  /\ batch' = <<>>
  /\ resp' = 0
  /\ hist' = [hist EXCEPT !.fault = what, !.faults = @ + 1,
                          !.failedIds = BatchIdSeq(batch),
                          !.retryOf = <<>>, !.fetched = <<>>,
                          !.cycle.probes = IF what = "_is_lan_reachable" THEN @ + 1 ELSE @,
                          !.cycle.reads = IF what \in {"get_unsynced_lan_records", "payload"}
                                          THEN @ + 1 ELSE @]
  /\ UNCHANGED <<now, shifts, cols, users, pull, log, call, running, lanUp, outages, serverLog>>

\* _is_lan_reachable raises something other than OSError
ProbeRaises ==
  /\ upc = "top"
  /\ running
  /\ Raised("_is_lan_reachable")

\* get_unsynced_lan_records raises (sqlite3.Error)
StoreRaises ==
  /\ upc = "sync"
  /\ Raised("get_unsynced_lan_records")

\* building the payload from the fetched records raises
PayloadRaises ==
  /\ upc = "sync"
  /\ get_unsynced_lan_records(log, SyncLimit) # <<>>
  /\ Raised("payload")

\* mark_lan_synced raises after a 200 answer (not a RequestException, so it
\* passes _sync_data's own handler)
MarkRaises ==
  /\ upc = "recv"
  /\ lanUp
  /\ IsSuccess(resp)
  /\ Raised("mark_lan_synced")

(* ------------------------------ network -------------------------------- *)
LanDrops ==
  /\ lanUp
  /\ outages < MaxOutages
  /\ lanUp' = FALSE
  /\ outages' = outages + 1
  /\ UNCHANGED <<now, shifts, cols, users, pull, log, call, running, upc, batch, resp, serverLog, hist>>

LanReturns ==
  /\ ~lanUp
  /\ lanUp' = TRUE
  /\ UNCHANGED <<now, shifts, cols, users, pull, log, call, running, upc, batch, resp, outages, serverLog, hist>>

(* -------------------- other callers of the store ----------------------- *)
IdSets == SUBSET (1..MaxRecs)

\* db.mark_mqtt_synced(ids), as the cloud channel and test_sqlite call it
MarkMqtt(idsets) ==
  /\ Ready
  /\ \E ids \in idsets : log' = mark_mqtt_synced(log, ids)
  /\ hist' = [hist EXCEPT !.op = "mark_mqtt_synced"]
  /\ UNCHANGED <<now, shifts, cols, users, pull, call, running, upc, batch, resp, lanUp, outages, serverLog>>

\* db.mark_lan_synced(ids) called from outside the loop, as test_sqlite does
MarkLan(idsets) ==
  /\ Ready
  /\ \E ids \in idsets : log' = mark_lan_synced(log, ids)
  /\ hist' = [hist EXCEPT !.op = "mark_lan_synced"]
  /\ UNCHANGED <<now, shifts, cols, users, pull, call, running, upc, batch, resp, lanUp, outages, serverLog>>

\* db.mark_as_synced(ids)
MarkAsSynced(idsets) ==
  /\ Ready
  /\ \E ids \in idsets : log' = mark_as_synced(log, ids)
  /\ hist' = [hist EXCEPT !.op = "mark_as_synced"]
  /\ UNCHANGED <<now, shifts, cols, users, pull, call, running, upc, batch, resp, lanUp, outages, serverLog>>

\* db.get_unsynced_lan_records(limit) called from outside the loop
GetUnsyncedLan(limits) ==
  /\ Ready
  /\ hist.query = NoQuery
  /\ \E limit \in limits :
       hist' = [hist EXCEPT !.query = [channel |-> "lan", limit |-> limit,
                                       rows |-> get_unsynced_lan_records(log, limit)]]
  /\ UNCHANGED <<now, shifts, cols, users, pull, log, call, running, upc, batch, resp, lanUp, outages, serverLog>>

\* db.get_unsynced_mqtt_records(limit), as the cloud channel calls it
GetUnsyncedMqtt(limits) ==
  /\ Ready
  /\ hist.query = NoQuery
  /\ \E limit \in limits :
       hist' = [hist EXCEPT !.query = [channel |-> "mqtt", limit |-> limit,
                                       rows |-> get_unsynced_mqtt_records(log, limit)]]
  /\ UNCHANGED <<now, shifts, cols, users, pull, log, call, running, upc, batch, resp, lanUp, outages, serverLog>>

\* db.upsert_users(user_list), as the MQTT subscriber calls it when the
\* roster arrives
UpsertUsers(lists) ==
  /\ Ready
  /\ \E user_list \in lists :
       /\ users' = upsert_users(users, user_list, SqlNow(now))
       /\ hist' = [hist EXCEPT !.op = "upsert_users", !.user_list = user_list]
  /\ UNCHANGED <<now, shifts, cols, pull, log, call, running, upc, batch, resp, lanUp, outages, serverLog>>

\* main() of test_mqtt_users up to the first wait loop: client.connect and
\* loop_start, which may raise (main logs and returns)
PullMain ==
  /\ Ready
  /\ pull.pc \in {"idle", "end"}
  /\ \E connects \in BOOLEAN :
       pull' = IF connects THEN [IdlePull EXCEPT !.pc = "conn_wait"]
               ELSE [IdlePull EXCEPT !.pc = "end", !.result = "connection failed"]
  /\ hist' = [hist EXCEPT !.messages = 0, !.pull_users = users, !.rosters = 0,
                          !.lost = 0, !.drops = 0]
  /\ UNCHANGED <<now, shifts, cols, users, log, call, running, upc, batch, resp, lanUp, outages, serverLog>>

\* on_connect with rc = 0, called by the client's network thread whenever
\* the broker has accepted a connection, the first or a later one:
\* subscribe, publish the request, connected_event
OnConnect ==
  /\ pull.pc \in {"conn_wait", "wait", "stop"}
  /\ ~pull.online
  /\ pull' = [pull EXCEPT !.online = TRUE, !.out = on_connect_calls(0),
                          !.connected_event = TRUE]
  /\ UNCHANGED <<now, shifts, cols, users, log, call, running, upc, batch, resp, lanUp, outages, serverLog, hist>>

\* while not connected_event and time.time() < deadline: time.sleep(0.2),
\* and the test that follows the loop
PullWaitConnected ==
  /\ pull.pc = "conn_wait"
  /\ pull' = IF ~pull.connected_event /\ pull.waited < ConnectPolls
             THEN [pull EXCEPT !.waited = @ + 1]
             ELSE IF ~pull.connected_event
             THEN [pull EXCEPT !.pc = "end", !.result = "could not connect"]
             ELSE [pull EXCEPT !.pc = "wait", !.waited = 0]
  /\ UNCHANGED <<now, shifts, cols, users, log, call, running, upc, batch, resp, lanUp, outages, serverLog, hist>>

\* on_message, called by the client's network thread between on_connect
\* and loop_stop
OnMessage(payloads) ==
  /\ pull.pc \in {"conn_wait", "wait", "stop"}
  /\ pull.connected_event
  /\ hist.messages < MaxMessages
  /\ \E payload \in payloads :
       IF payload.kind \in {"list", "dict"}
       THEN /\ pull' = [pull EXCEPT !.received_payload = AsUserList(payload)]
            /\ users' = upsert_users(users, AsUserList(payload), SqlNow(now))
            /\ hist' = [hist EXCEPT !.messages = @ + 1, !.op = "upsert_users",
                                    !.user_list = AsUserList(payload),
                                    !.rosters = @ + 1, !.payload = payload]
       ELSE /\ hist' = [hist EXCEPT !.messages = @ + 1, !.payload = payload]
            /\ UNCHANGED <<pull, users>>
  /\ UNCHANGED <<now, shifts, cols, log, call, running, upc, batch, resp, lanUp, outages, serverLog>>

\* while not received_payload and time.time() < deadline: time.sleep(0.5)
PullWait ==
  /\ pull.pc = "wait"
  /\ pull' = IF WaitOver(pull) THEN [pull EXCEPT !.pc = "stop"]
             ELSE [pull EXCEPT !.waited = @ + 1]
  /\ UNCHANGED <<now, shifts, cols, users, log, call, running, upc, batch, resp, lanUp, outages, serverLog, hist>>

\* client.loop_stop(); client.disconnect(): the connection and what the
\* broker held for it are gone, the pull waits for no answer any more
PullStop ==
  /\ pull.pc = "stop"
  /\ pull' = [pull EXCEPT !.pc = "summary", !.online = FALSE, !.out = <<>>,
                          !.subscribed = FALSE, !.requests = 0]
  /\ UNCHANGED <<now, shifts, cols, users, log, call, running, upc, batch, resp, lanUp, outages, serverLog, hist>>

\* the broker handles the oldest call of the connection: a subscribe makes
\* the subscription, a publish passes the request on to the dashboard
BrokerTakes ==
  /\ pull.online
  /\ pull.out # <<>>
  /\ pull' = IF Head(pull.out) = "subscribe"
             THEN [pull EXCEPT !.out = Tail(@), !.subscribed = TRUE]
             ELSE [pull EXCEPT !.out = Tail(@), !.requests = @ + 1]
  /\ UNCHANGED <<now, shifts, cols, users, log, call, running, upc, batch, resp, lanUp, outages, serverLog, hist>>

\* on_message of the dashboard simulator: it publishes EMPLOYEES on the
\* receive topic; the broker hands it to the device if the device is
\* subscribed (the device's on_message runs), and to nobody otherwise
DashboardResponds ==
  /\ pull.requests > 0
  /\ IF pull.online /\ pull.subscribed
     THEN /\ pull' = [pull EXCEPT !.requests = @ - 1,
                                  !.received_payload = AsUserList(ListPayload(EMPLOYEES))]
          /\ users' = upsert_users(users, AsUserList(ListPayload(EMPLOYEES)), SqlNow(now))
          /\ hist' = [hist EXCEPT !.messages = @ + 1, !.op = "upsert_users",
                                  !.user_list = AsUserList(ListPayload(EMPLOYEES)),
                                  !.rosters = @ + 1, !.payload = ListPayload(EMPLOYEES)]
     ELSE /\ pull' = [pull EXCEPT !.requests = @ - 1]
          /\ hist' = [hist EXCEPT !.lost = @ + 1]
          /\ UNCHANGED users
  /\ UNCHANGED <<now, shifts, cols, log, call, running, upc, batch, resp, lanUp, outages, serverLog>>

\* the connection to the broker is lost while the client's network thread
\* runs (it connects again by itself): the client was made by mqtt.Client()
\* without a client id, so the broker keeps nothing of the session; calls
\* it had not handled are lost with the connection
ConnectionLost ==
  /\ pull.pc \in {"conn_wait", "wait", "stop"}
  /\ pull.online
  /\ hist.drops < MaxOutages
  /\ pull' = [pull EXCEPT !.online = FALSE, !.out = <<>>, !.subscribed = FALSE]
  /\ hist' = [hist EXCEPT !.drops = @ + 1]
  /\ UNCHANGED <<now, shifts, cols, users, log, call, running, upc, batch, resp, lanUp, outages, serverLog>>

\* the summary: SUCCESS if received_payload, else NO RESPONSE; main returns
PullSummary ==
  /\ pull.pc = "summary"
  /\ pull' = [pull EXCEPT !.pc = "end",
                          !.result = IF pull.received_payload # <<>> THEN "success"
                                     ELSE "no response"]
  /\ UNCHANGED <<now, shifts, cols, users, log, call, running, upc, batch, resp, lanUp, outages, serverLog, hist>>

\* LocalDatabase(): _init_db runs on the file as it is (the first
\* construction, or a later one by another script or a restart)
InitDb ==
  /\ shifts' = InitDbOf(shifts, cols, log).shifts
  /\ cols' = InitDbOf(shifts, cols, log).cols
  /\ log' = InitDbOf(shifts, cols, log).log
  /\ hist' = [hist EXCEPT !.op = "_init_db"]
  /\ UNCHANGED <<now, users, pull, call, running, upc, batch, resp, lanUp, outages, serverLog>>

(* ------------------------------ claims --------------------------------- *)
\* position of row i among the rows of its user and date, in punch_time
\* order (equal times in id order)
RankOfDay(lg, i) ==
  Cardinality({j \in TodayRows(lg, lg[i].user_id, lg[i].punch_date) :
                 \/ IsoLess(lg[j].punch_time, lg[i].punch_time)
                 \/ (lg[j].punch_time = lg[i].punch_time /\ j < i)})

Alternates(lg) ==
  \A i \in Ids(lg) : lg[i].punch_type = IF RankOfDay(lg, i) % 2 = 0 THEN "IN" ELSE "OUT"

SecondsApart(lg, i, j) ==
  LET a == FromIso(lg[i].punch_time)
      b == FromIso(lg[j].punch_time)
  IN IF a >= b THEN a - b ELSE b - a

CooldownKept(lg) ==
  \A i, j \in Ids(lg) :
    (i # j /\ lg[i].user_id = lg[j].user_id) => SecondsApart(lg, i, j) >= CooldownSecs

\* C1 (as claimed): after any sequence of non-overlapping add_record calls,
\* the punches of one user on one calendar date, in punch_time order, go
\* IN, OUT, IN, OUT, ... starting with IN.
C1_AlternatesPerDay == Alternates(log)

\* C2 (as claimed): no two stored punches of the same user are less than 60
\* seconds apart, whichever calendar dates they fall on.
C2_CooldownAcrossDates == CooldownKept(log)

\* C3 (as claimed): when add_record calls overlap, the stored records are
\* those of a serial execution: within one calendar day the directions
\* alternate and the cooldown holds.
C3_OverlapSerializable == Alternates(log) /\ CooldownKept(log)

\* C4 (as claimed): every record the LAN loop has marked lan_synced is
\* present in the receiver's store.
C4_MarkedOnlyIfPersisted ==
  \A i \in hist.loopMarked :
    \E k \in 1..Len(serverLog) : serverLog[k] = Payload(log[i])

IsPrefix(p, q) == Len(p) <= Len(q) /\ \A k \in 1..Len(p) : p[k] = q[k]

\* a step of the LAN loop that ends a send in failure: the request never
\* arrived, the answer was lost, or the answer was not a success
FailedSendStep ==
  /\ upc \in {"post", "recv"}
  /\ upc' = "sleep"
  /\ ~(upc = "recv" /\ lanUp /\ IsSuccess(resp))

\* C6: a failed LAN send changes no sync flag (no row at all), and, the
\* loop being the only caller that marks records, the next batch it fetches
\* starts with the same record ids in the same order.
C6_FailedSendRetriedVerbatim ==
  /\ [][FailedSendStep => log' = log]_vars
  /\ [](hist.retryOf # <<>> => IsPrefix(hist.retryOf, hist.fetched))

\* a send failed, a punch was added, and the retry carries the old batch
\* first and the new punch after it
C6_Witness ==
  /\ upc = "post"
  /\ hist.retryOf # <<>>
  /\ IsPrefix(hist.retryOf, BatchIdSeq(batch))
  /\ Len(batch) > Len(hist.retryOf)

\* the step in which the LAN loop handles a 200 answer
SuccessfulSendStep == upc = "recv" /\ upc' = "sleep" /\ lanUp /\ IsSuccess(resp)

\* C7: on a successful send the loop sets lan_synced for exactly the ids of
\* the batch it sent; every other row, the rows add_record inserted during
\* the send included, and every other field stay as they were.
C7_MarksExactlyTheBatch ==
  [][SuccessfulSendStep =>
       /\ Len(log') = Len(log)
       /\ \A i \in Ids(log) :
            log'[i] = IF i \in BatchIds(batch) THEN [log[i] EXCEPT !.lan_synced = 1]
                      ELSE log[i]]_vars

\* the loop has marked a batch while a punch inserted during that send is
\* still unsynced
C7_Witness ==
  /\ upc = "sleep"
  /\ hist.failedIds = <<>>
  /\ hist.loopMarked # {}
  /\ \E j \in hist.duringSend : log[j].lan_synced = 0 /\ \A i \in hist.loopMarked : i < j

ClearFlags(lg) == [i \in Ids(lg) |-> [lg[i] EXCEPT !.lan_synced = 0, !.mqtt_synced = 0]]

\* C10: add_record's outcome does not depend on the network or on the sync
\* loop.  hist.ref is the store of a run that receives the same calls at the
\* same clock readings and in which no record is ever synced: the two stores
\* hold the same punches (every field but the sync flags) and every call
\* returned the same value in both.
C10_RecorderIndependentOfSync ==
  /\ ClearFlags(log) = hist.ref
  /\ hist.ret = hist.ref_ret

\* a punch was stored as OUT while a request was in flight, after the loop
\* had marked the same user's earlier punch, the link having dropped once
C10_Witness ==
  /\ outages > 0
  /\ \E j \in hist.duringSend :
       /\ log[j].punch_type = "OUT"
       /\ \E i \in hist.loopMarked : i < j /\ log[i].user_id = log[j].user_id

\* C5: while the loop keeps running, if the receiver from some point on
\* stays reachable, every punch in the store (those stored during the outage
\* included) is eventually marked lan_synced and, flags never being reset,
\* from then on every stored punch is marked; no batch holds more than 50
\* records.
C5_BacklogEventuallyMarked ==
  /\ [](Len(batch) <= SyncLimit)
  /\ (<>[]lanUp) => <>[](\A i \in Ids(log) : log[i].lan_synced = 1)

\* more punches than one batch holds were stored during outages, and the
\* loop has marked them all
C5_Witness ==
  /\ Len(log) > SyncLimit
  /\ outages > 0
  /\ hist.loopMarked = Ids(log)
  /\ \A i \in Ids(log) : log[i].lan_synced = 1

LanFlags(lg) == [i \in Ids(lg) |-> lg[i].lan_synced]
MqttFlags(lg) == [i \in Ids(lg) |-> lg[i].mqtt_synced]

\* C8: for every id list and every store state, mark_lan_synced leaves every
\* mqtt_synced as it is and mark_mqtt_synced leaves every lan_synced as it
\* is; a record with exactly one flag set keeps both flags through every
\* operation except a marking of the other channel.
C8_MarksLeaveOtherChannel ==
  /\ [](\A ids \in IdSets :
          /\ MqttFlags(mark_lan_synced(log, ids)) = MqttFlags(log)
          /\ LanFlags(mark_mqtt_synced(log, ids)) = LanFlags(log))
  /\ [][\A i \in Ids(log) :
          /\ (log[i].lan_synced = 1 /\ log[i].mqtt_synced = 0) =>
               \/ (log'[i].lan_synced = 1 /\ log'[i].mqtt_synced = 0)
               \/ (log'[i].lan_synced = 1 /\ log'[i].mqtt_synced = 1
                     /\ hist'.op \in {"mark_mqtt_synced", "mark_as_synced"})
          /\ (log[i].lan_synced = 0 /\ log[i].mqtt_synced = 1) =>
               \/ (log'[i].lan_synced = 0 /\ log'[i].mqtt_synced = 1)
               \/ (log'[i].lan_synced = 1 /\ log'[i].mqtt_synced = 1
                     /\ hist'.op \in {"mark_lan_synced", "mark_as_synced"})]_vars

\* one record delivered to the LAN only and one to the cloud only, both
\* kept through a later add_record
C8_Witness ==
  /\ hist.op = "add_record"
  /\ \E i, j \in Ids(log) :
       /\ log[i].lan_synced = 1 /\ log[i].mqtt_synced = 0
       /\ log[j].lan_synced = 0 /\ log[j].mqtt_synced = 1

\* an operation wrote the lan_synced (mqtt_synced) of a stored record
LanWritten == \E i \in Ids(log) : log'[i].lan_synced # log[i].lan_synced
MqttWritten == \E i \in Ids(log) : log'[i].mqtt_synced # log[i].mqtt_synced

\* C9 (as claimed): no operation of the store writes the flags of both
\* channels.
C9_NoOperationWritesBoth == [][~(LanWritten /\ MqttWritten)]_vars

\* C9 (amended): an operation that writes the flags of both channels is
\* mark_as_synced or _init_db; _init_db sets both flags of exactly the
\* records whose legacy column synced is 1.
C9_OnlyLegacyPathsWriteBoth ==
  [][/\ (LanWritten /\ MqttWritten) => hist'.op \in {"mark_as_synced", "_init_db"}
     /\ hist'.op = "_init_db" =>
          \A i \in Ids(log) :
            (log'[i].lan_synced = 1 /\ log'[i].mqtt_synced = 1) <=>
              (log[i].synced = 1 \/ (log[i].lan_synced = 1 /\ log[i].mqtt_synced = 1))]_vars

\* mark_as_synced has set both flags of a record next to a record that one
\* channel only has marked, in a store migrated from an older file
C9_Witness ==
  /\ hist.op = "mark_as_synced"
  /\ "synced" \in cols
  /\ \E i, j \in Ids(log) :
       /\ log[i].lan_synced = 1 /\ log[i].mqtt_synced = 1 /\ log[i].synced # 1
       /\ log[j].lan_synced + log[j].mqtt_synced = 1

\* every field of a row but the two sync flags
Punch(row) == [row EXCEPT !.lan_synced = 0, !.mqtt_synced = 0]

\* C11: once the store is initialized, every step (add_record, a marking, a
\* repeated _init_db) keeps every stored punch, with every field but the
\* sync flags as it was, and a sync flag that is 1 stays 1.
C11_StoredPunchesKept ==
  [][Ready =>
       \A i \in Ids(log) :
         /\ i \in Ids(log')
         /\ Punch(log'[i]) = Punch(log[i])
         /\ log[i].lan_synced = 1 => log'[i].lan_synced = 1
         /\ log[i].mqtt_synced = 1 => log'[i].mqtt_synced = 1]_vars

\* _init_db has run again on a migrated store that holds a record of the
\* older file marked by one channel since, next to a punch added since
C11_Witness ==
  /\ hist.op = "_init_db"
  /\ Len(log) > 2
  /\ \E i \in Ids(log) :
       log[i].synced = 0 /\ log[i].lan_synced = 1 /\ log[i].mqtt_synced = 0

\* a step that is one whole add_record call
AddRecordStep == AddRecord(CallArgs, MaxElapsed, {0} \cup TickSteps, MaxRecs)

\* C12: an add_record call either appends exactly one row, with both sync
\* flags 0, and returns its id, or leaves the store as it is and returns
\* None (0 here).
C12_AtMostOnePunchPerCall ==
  [][AddRecordStep =>
       \/ /\ hist'.ret = 0
          /\ log' = log
       \/ /\ Len(log') = Len(log) + 1
          /\ SubSeq(log', 1, Len(log)) = log
          /\ hist'.ret = log'[Len(log')].id
          /\ \A i \in Ids(log) : log[i].id # hist'.ret
          /\ log'[Len(log')].lan_synced = 0
          /\ log'[Len(log')].mqtt_synced = 0]_vars

\* two punches were stored and the last call was suppressed
C12_Witness ==
  /\ Len(log) = 2
  /\ hist.calls = 1
  /\ hist.ret = 0

\* seconds since midnight of a shift's "HH:MM:SS"
ClockSecs(t_str) == t_str.h * 3600 + t_str.m * 60 + t_str.s

\* C13: an IN punch up to shift start + grace is ("Present", 0, 0, 0); a
\* later one has late_minutes = whole minutes since shift start, early and
\* overtime 0, and is "Half Day" above 120 late minutes, else "Late".
C13_StatusOfInPunch ==
  LET r == hist.status.result
      shift == shifts[1]
      t == ClockOf(now)
      start == ClockSecs(shift.start_time)
  IN hist.status.punch_type = "IN" =>
       IF t <= start + 60 * shift.late_grace_mins
       THEN r = [status |-> "Present", late |-> 0, early |-> 0, ot |-> 0]
       ELSE /\ r.late * 60 <= t - start
            /\ t - start < (r.late + 1) * 60
            /\ r.early = 0
            /\ r.ot = 0
            /\ r.status = IF r.late > 120 THEN "Half Day" ELSE "Late"

\* an IN punch exactly 120 minutes late was given "Late"
C13_Witness ==
  /\ hist.status.punch_type = "IN"
  /\ hist.status.result.late = 120
  /\ hist.status.result.status = "Late"

\* C14: an OUT punch before shift end has early_minutes = whole minutes to
\* shift end and is "Half Day (Early)" above 60, else "Early Departure"; one
\* after shift end + overtime offset has overtime_minutes = whole minutes
\* since shift end and is "Overtime"; any other is ("Present", 0, 0, 0);
\* late_minutes is 0 throughout.
C14_StatusOfOutPunch ==
  LET r == hist.status.result
      shift == shifts[1]
      t == ClockOf(now)
      end == ClockSecs(shift.end_time)
  IN hist.status.punch_type = "OUT" =>
       /\ r.late = 0
       /\ IF t < end
          THEN /\ r.early * 60 <= end - t
               /\ end - t < (r.early + 1) * 60
               /\ r.ot = 0
               /\ r.status = IF r.early > 60 THEN "Half Day (Early)" ELSE "Early Departure"
          ELSE IF t > end + 60 * shift.overtime_start_mins
          THEN /\ r.ot * 60 <= t - end
               /\ t - end < (r.ot + 1) * 60
               /\ r.early = 0
               /\ r.status = "Overtime"
          ELSE r = [status |-> "Present", late |-> 0, early |-> 0, ot |-> 0]

\* an OUT punch exactly at shift end + overtime offset was given "Present"
C14_Witness ==
  /\ hist.status.punch_type = "OUT"
  /\ ClockOf(now) = ClockSecs(shifts[1].end_time) + 60 * shifts[1].overtime_start_mins
  /\ hist.status.result.status = "Present"

\* the rows q.rows are the min(q.limit, n) lowest-id rows of lg whose flag
\* for q.channel is 0, lowest id first (a row's id is its position in lg):
\* k rows of lg with the flag 0, ids ascending, and no other such row of lg
\* has an id below the last one's
RightAnswer(lg, q) ==
  LET Flag(r) == IF q.channel = "lan" THEN r.lan_synced ELSE r.mqtt_synced
      open == {i \in Ids(lg) : Flag(lg[i]) = 0}
      n == Cardinality(open)
      k == IF q.limit < n THEN q.limit ELSE n
  IN /\ Len(q.rows) = k
     /\ \A j \in 1..k : q.rows[j].id \in open /\ q.rows[j] = lg[q.rows[j].id]
     /\ \A j \in 1..(k - 1) : q.rows[j].id < q.rows[j + 1].id
     /\ k > 0 => Cardinality({i \in open : i <= q.rows[k].id}) = k

\* C15: get_unsynced_lan_records(limit) and get_unsynced_mqtt_records(limit)
\* return exactly the min(limit, n) lowest-id punches whose flag for that
\* channel is 0, in ascending id order; the LAN loop's batch never holds
\* more than 50 records.
C15_LowestUnsyncedUpToLimit ==
  /\ hist.query # NoQuery => RightAnswer(log, hist.query)
  /\ Len(batch) <= 50

\* 51 punches are not marked for MQTT, the second of the store is; a query
\* with limit 50 returned ids 1, 3, 4, ... and left the last one out
C15_Witness ==
  /\ hist.query.channel = "mqtt"
  /\ hist.query.limit = 50
  /\ Len(hist.query.rows) = 50
  /\ hist.query.rows[1].id = 1
  /\ hist.query.rows[2].id = 3
  /\ Cardinality({i \in Ids(log) : log[i].mqtt_synced = 0}) = 51

\* a roster entry's key holds something
Given(v) == v.kind # "none" /\ v.text # ""
\* the entry has a user identifier and a name
Valid(u) == (Given(u.user_id) \/ Given(u.id)) /\ (Given(u.name) \/ Given(u.employee_name))
IdOf(u) == IF Given(u.user_id) THEN u.user_id.text ELSE u.id.text
NameOf(u) == IF Given(u.name) THEN u.name.text ELSE u.employee_name.text
\* the identifiers of the valid entries of list l
ValidIds(l) == {IdOf(l[k]) : k \in {k \in DOMAIN l : Valid(l[k])}}
\* the name the last valid entry of l with identifier uid carries
LastNameFor(l, uid) ==
  LET ks == {k \in DOMAIN l : Valid(l[k]) /\ IdOf(l[k]) = uid}
  IN NameOf(l[CHOOSE k \in ks : \A k2 \in ks : k2 <= k])
RosterIds(us) == {us[i].user_id : i \in DOMAIN us}
\* a step that is one upsert_users call, with the list it was given
UpsertStep == UpsertUsers({hist'.user_list})

\* C17: upsert_users with an entry whose identifier exists replaces that
\* row's name and synced_at, keeps exactly one row for the identifier and
\* leaves every other roster row unchanged; with an identifier not yet
\* present it adds exactly one row.
C17_UpsertReplacesOrAddsOne ==
  [][UpsertStep =>
       LET l == hist'.user_list
       IN /\ \A uid \in ValidIds(l) :
               Cardinality({i \in DOMAIN users' : users'[i].user_id = uid}) = 1
          /\ \A i \in DOMAIN users :
               /\ i \in DOMAIN users'
               /\ users'[i].user_id = users[i].user_id
               /\ IF users[i].user_id \in ValidIds(l)
                  THEN /\ users'[i].name = LastNameFor(l, users[i].user_id)
                       /\ users'[i].synced_at = SqlNow(now)
                  ELSE users'[i] = users[i]
          /\ Len(users') = Len(users) + Cardinality(ValidIds(l) \ RosterIds(users))]_vars

\* user 101, stored first, was renamed by a later call with that entry
\* alone; the row of user 102 still carries its earlier synced_at
C17_Witness ==
  /\ hist.op = "upsert_users"
  /\ Len(hist.user_list) = 1
  /\ Len(users) = 2
  /\ users[1].user_id = "101" /\ users[1].name = "Ann B"
  /\ users[2].user_id = "102"
  /\ users[1].synced_at = SqlNow(now)
  /\ IsoLess(users[2].synced_at, users[1].synced_at)

\* C20: a roster entry without user identifier (neither user_id nor id) or
\* without name (neither name nor employee_name) is skipped, and every valid
\* entry of the same list, before or after it, is still upserted.
C20_InvalidEntrySkipped ==
  [][UpsertStep =>
       LET l == hist'.user_list
       IN (\E k \in DOMAIN l : ~Valid(l[k])) =>
            /\ \A k \in DOMAIN l :
                 Valid(l[k]) =>
                   \E i \in DOMAIN users' :
                     /\ users'[i].user_id = IdOf(l[k])
                     /\ users'[i].name = LastNameFor(l, IdOf(l[k]))
                     /\ users'[i].synced_at = SqlNow(now)
            /\ RosterIds(users') = RosterIds(users) \cup ValidIds(l)]_vars

\* a list of an entry without name followed by a valid entry for a new
\* user: the roster gained that user's row, with this call's synced_at, and
\* nothing for identifier 103
C20_Witness ==
  /\ hist.op = "upsert_users"
  /\ Len(hist.user_list) = 2
  /\ hist.user_list[1].user_id.text = "103"
  /\ Valid(hist.user_list[2])
  /\ RosterIds(users) = {"101", "102"}
  /\ users[2].user_id = IdOf(hist.user_list[2])
  /\ users[2].synced_at = SqlNow(now)
  /\ IsoLess(users[1].synced_at, users[2].synced_at)

\* C16: running the initialization on a file it has already run on leaves
\* the file as it is: the same columns, no second default shift, and every
\* punch, shift and roster row as before.
C16_SecondInitChangesNothing ==
  [][(Ready /\ InitDb) => UNCHANGED <<shifts, cols, users, pull, log>>]_vars

\* the initialization has run again on an older file that by then held the
\* migrated rows, a new punch, a row marked for LAN and roster rows
C16_Witness ==
  /\ hist.op = "_init_db"
  /\ "synced" \in cols
  /\ Len(log) > 2
  /\ Len(shifts) = 1
  /\ users # <<>>
  /\ \E i \in Ids(log) : log[i].synced # 1 /\ log[i].lan_synced = 1

\* C18: no failure inside a cycle of the LAN loop (probe or send failure,
\* an exception of the store or of building the payload) ends the loop: the
\* thread ends only at the while test with running false, and from every
\* position inside a cycle the loop reaches its sleep and from there the
\* next while test.
C18_FailuresStayInsideTheLoop ==
  /\ [][(upc # "done" /\ upc' = "done") => (upc = "top" /\ ~running)]_vars
  /\ (upc \in {"sync", "post", "recv"}) ~> (upc = "sleep")
  /\ (upc = "sleep") ~> (upc = "top")

\* mark_lan_synced raised after a delivered batch, and the loop, still
\* running, is sending again
C18_Witness ==
  /\ hist.fault = "mark_lan_synced"
  /\ running
  /\ upc = "recv"
  /\ Len(serverLog) > 1

\* C19: after stop() the loop thread finishes the cycle it is in and, once
\* its current sleep has ended, starts no new probe or send: its next while
\* test ends it.
C19_StoppedLoopStartsNoCycle ==
  [][(hist.stopped /\ upc = "top") => upc' \notin {"sync", "sleep"}]_vars

\* C21: a roster pull during which no message arrives ends normally: its
\* wait ends at the timeout, table users is as it was when the pull began,
\* and main returns with "no response"; the wait always ends.
C21_SilentPullEndsAtTimeout ==
  /\ []((pull.pc = "end" /\ pull.connected_event /\ hist.messages = 0) =>
          /\ pull.waited = WaitSeconds * 2
          /\ users = hist.pull_users
          /\ pull.result = "no response")
  /\ (pull.pc = "wait") ~> (pull.pc = "end")

\* a pull that began with a roster row stored has ended after the whole
\* wait without any message
C21_Witness ==
  /\ pull.pc = "end"
  /\ pull.connected_event
  /\ hist.messages = 0
  /\ pull.waited = WaitSeconds * 2
  /\ pull.result = "no response"
  /\ users # <<>>
  /\ users = hist.pull_users

\* a step that is one whole add_record call for an event without identity
NoIdentityStep == AddRecord(NoIdentityArgs, MaxElapsed, {0} \cup TickSteps, MaxRecs)

\* C22: add_record called with no user identifier and no usable name stores
\* a punch whose user_id and name are "Unknown" (or, within the cooldown of
\* the previous such punch, stores nothing).
C22_NoIdentityStoredAsUnknown ==
  [][NoIdentityStep =>
       \/ /\ hist'.ret = 0
          /\ log' = log
       \/ /\ Len(log') = Len(log) + 1
          /\ hist'.ret = Len(log')
          /\ log'[Len(log')].name = "Unknown"
          /\ log'[Len(log')].user_id = "Unknown"]_vars

\* how many rows of the receiver's table carry punch i
StoredTimes(i) ==
  Cardinality({k \in 1..Len(serverLog) : serverLog[k] = Payload(log[i])})

\* C23: with no response lost and one loop thread, the receiver never holds
\* a punch twice, and it holds every punch the loop has marked exactly once.
C23_EachPunchStoredOnce ==
  /\ \A i \in Ids(log) : StoredTimes(i) <= 1
  /\ \A i \in hist.loopMarked : StoredTimes(i) = 1

\* C24: the punches marked lan_synced are always the ones with the lowest
\* ids: below a marked punch there is no unmarked one, also when add_record
\* stores punches while a send is in flight.
C24_LanSyncedDownwardClosed ==
  \A i, j \in Ids(log) :
    (i < j /\ log[j].lan_synced = 1) => log[i].lan_synced = 1

\* a batch of two punches has been marked, and a punch stored while the
\* batch was in flight is waiting behind it
C24_Witness ==
  /\ Len(log) = 3
  /\ log[1].lan_synced = 1
  /\ log[2].lan_synced = 1
  /\ log[3].lan_synced = 0
  /\ 3 \in hist.duringSend
  /\ hist.loopMarked = {1, 2}

\* C25: between two sleeps the loop probes at most once, sends at most one
\* request (so a failed send is not repeated before the sleep) and changes
\* lan_synced on at most 50 rows.
C25_OneAttemptPerCycle ==
  /\ hist.cycle.probes <= 1
  /\ hist.cycle.sends <= 1
  /\ hist.cycle.marked <= SyncLimit

\* after the link had dropped once, a cycle probed, sent one request and
\* marked a full batch of 50 while more punches were waiting
C25_Witness ==
  /\ upc = "sleep"
  /\ hist.cycle = [probes |-> 1, reads |-> 1, sends |-> 1, marked |-> SyncLimit]
  /\ \E i \in Ids(log) : log[i].lan_synced = 0
  /\ outages > 0

\* the loop's probe finds the receiver unreachable
ProbeFailsStep ==
  /\ upc = "top"
  /\ upc' # "top"
  /\ running
  /\ ~lanUp

\* C26: when the probe fails the loop goes to its sleep without reading the
\* store, sending or changing a flag, and from the sleep it goes to the
\* while test and the next probe, the store and the receiver untouched.
C26_FailedProbeOnlySleeps ==
  /\ [][ProbeFailsStep =>
         /\ upc' = "sleep"
         /\ log' = log
         /\ batch' = <<>>
         /\ serverLog' = serverLog
         /\ hist'.cycle = [NoCycle EXCEPT !.probes = 1]]_vars
  /\ [][(upc = "sleep" /\ upc' # "sleep") =>
         /\ upc' = "top"
         /\ log' = log
         /\ serverLog' = serverLog]_vars

\* the probe has failed while an unsent punch was waiting, and the loop is
\* in its sleep having done nothing else
C26_Witness ==
  /\ upc = "sleep"
  /\ ~lanUp
  /\ hist.cycle = [NoCycle EXCEPT !.probes = 1]
  /\ \E i \in Ids(log) : log[i].lan_synced = 0

\* a step that is one whole add_record call beside the loop
AddRecordBesideLoop == AddRecord(SyncArgs, MaxSyncElapsed, {0} \cup TickSteps, MaxRecs)

ShiftById(sh, id) == LET Is(r) == r.id = id IN SelectSeq(sh, Is)

\* the status of punch r derived again from what is stored
Rederived(r) ==
  calculate_attendance_status(FromIso(r.punch_time), r.punch_type,
                              ShiftById(shifts, r.shift_id))

LowestShiftId(sh) == CHOOSE id \in {sh[k].id : k \in 1..Len(sh)} :
                       \A k \in 1..Len(sh) : id <= sh[k].id

\* C29: once _init_db has run, table shifts is not empty, get_user_shift
\* returns its row with the lowest id, and a punch that add_record stores
\* has that id as shift_id.
C29_DefaultShiftOnEveryPunch ==
  /\ [](Ready => /\ shifts # <<>>
                 /\ get_user_shift(shifts) # <<>>
                 /\ get_user_shift(shifts)[1].id = LowestShiftId(shifts))
  /\ [][Len(log') = Len(log) + 1 =>
          log'[Len(log')].shift_id = LowestShiftId(shifts)]_vars

\* with two shifts in the table, punches of two users carry the id of the
\* first
C29_Witness ==
  /\ Len(shifts) = 2
  /\ \E i, j \in Ids(log) :
       /\ log[i].user_id # log[j].user_id
       /\ log[i].shift_id = 1
       /\ log[j].shift_id = 1

\* C30: the first _init_db on an older file gives a record with synced = 1
\* both flags 1 and a record with synced = 0 both flags 0; a later _init_db
\* leaves both flags of every record as they are, those set since included.
C30_LegacyFlagFannedOut ==
  /\ [][(~Ready /\ Ready') =>
          \A i \in Ids(log) :
            /\ log[i].synced = 1 => (log'[i].lan_synced = 1 /\ log'[i].mqtt_synced = 1)
            /\ log[i].synced = 0 => (log'[i].lan_synced = 0 /\ log'[i].mqtt_synced = 0)]_vars
  /\ [][(Ready /\ hist'.op = "_init_db") =>
          \A i \in Ids(log) :
            /\ log'[i].lan_synced = log[i].lan_synced
            /\ log'[i].mqtt_synced = log[i].mqtt_synced]_vars

\* _init_db has run again on a migrated store: the record that was synced
\* has both flags, the other one only the mqtt flag it was given since
C30_Witness ==
  /\ hist.op = "_init_db"
  /\ Len(log) >= 2
  /\ log[1].synced = 1 /\ log[1].lan_synced = 1 /\ log[1].mqtt_synced = 1
  /\ log[2].synced = 0 /\ log[2].lan_synced = 0 /\ log[2].mqtt_synced = 1

\* C31: a message that is a list of entries or a single entry ends the
\* wait of the pull (received_payload is set) and is upserted into table
\* users; the wait is left at its deadline only if no such message came.
C31_RosterResponseEndsWait ==
  /\ [][hist'.rosters = hist.rosters + 1 =>
          /\ WaitOver(pull')
          /\ pull'.received_payload = hist'.user_list
          /\ users' = upsert_users(users, hist'.user_list, SqlNow(now))]_vars
  /\ [][(pull.pc = "wait" /\ pull'.pc = "stop" /\ pull.received_payload = <<>>) =>
          hist.rosters = 0]_vars

\* entry e with every alternative key replaced by the usual one
Canonical(e) ==
  [NoEntry EXCEPT !.user_id = IF e.user_id = Missing THEN e.id ELSE e.user_id,
                  !.name = IF e.name = Missing THEN e.employee_name ELSE e.name]

\* the entries of a message, a single object taken as the list holding it
EntriesOf(p) == IF p.kind = "dict" THEN <<p.entry>> ELSE p.value

\* C32: a message with entries under the keys id / employee_name leaves
\* table users exactly as the same entries under user_id / name would, and
\* a message that is one entry exactly as the list of that entry would.
C32_AliasAndSingleEntryStoredAlike ==
  [][hist'.rosters = hist.rosters + 1 =>
       LET entries == EntriesOf(hist'.payload)
           canonical == [k \in 1..Len(entries) |-> Canonical(entries[k])]
       IN /\ users' = upsert_users(users, entries, SqlNow(now))
          /\ users' = upsert_users(users, canonical, SqlNow(now))
          /\ pull'.received_payload = entries]_vars

\* a single entry with an integer id under the alternative keys has been
\* stored, beside a user stored from an entry with the key id
C32_Witness ==
  /\ hist.payload = DictPayload([NoEntry EXCEPT !.id = JsonInt("202"),
                                               !.employee_name = JsonStr("Ed")])
  /\ \E i \in DOMAIN users : users[i].user_id = "202" /\ users[i].name = "Ed"
  /\ \E i \in DOMAIN users : users[i].user_id = "201"
  /\ pull.received_payload = <<hist.payload.entry>>

\* a step in which the loop thread probes, hands a request to requests.post
\* or marks its batch
LoopActsStep ==
  \/ upc = "top" /\ upc' \in {"sync", "sleep"}
  \/ upc = "post" /\ upc' # "post"
  \/ upc = "recv" /\ LanChanged(log, log') # {}

\* C33: once stop() has returned, the thread it stopped performs no further
\* probe, send or mark, whether or not start() is called again.
C33_StoppedThreadActsNoMore ==
  [][hist.stopped => ~LoopActsStep]_vars

\* C34: if from some point on the receiver stays reachable and the loop
\* stays running, every stored punch the receiver accepts is eventually
\* marked lan_synced, also one that shares its batches with a lower-id punch
\* the receiver rejects.
C34_ProgressPastRejectedBatch ==
  (<>[](lanUp /\ running)) =>
    <>[](\A i \in Ids(log) :
           Validates(<<Payload(log[i])>>) => log[i].lan_synced = 1)

\* C35: in every stored punch attendance_status is "Present" exactly when
\* late_minutes, early_departure_minutes and overtime_minutes are all 0.
C35_PresentIffNoMinutes ==
  \A i \in Ids(log) :
    log[i].attendance_status = "Present" <=>
      /\ log[i].late_minutes = 0
      /\ log[i].early_departure_minutes = 0
      /\ log[i].overtime_minutes = 0

\* C36: in every stored punch punch_type is IN or OUT, the three minute
\* counts are >= 0, at most one of them is non-zero, late_minutes is non-zero
\* only on an IN punch, early_departure_minutes and overtime_minutes only on
\* an OUT punch.
C36_MinutesMatchPunchType ==
  \A i \in Ids(log) :
    LET r == log[i]
        counts == <<r.late_minutes, r.early_departure_minutes, r.overtime_minutes>>
    IN /\ r.punch_type \in {"IN", "OUT"}
       /\ \A k \in 1..3 : counts[k] >= 0
       /\ Cardinality({k \in 1..3 : counts[k] # 0}) <= 1
       /\ r.late_minutes # 0 => r.punch_type = "IN"
       /\ r.early_departure_minutes # 0 => r.punch_type = "OUT"
       /\ r.overtime_minutes # 0 => r.punch_type = "OUT"

\* a late IN punch and an overtime OUT punch are stored
C36_Witness ==
  /\ \E i \in Ids(log) : log[i].punch_type = "IN" /\ log[i].late_minutes > 0
  /\ \E i \in Ids(log) : log[i].punch_type = "OUT" /\ log[i].overtime_minutes > 0

\* C37 (as claimed): in a roster pull no request is ever outstanding
\* without an active subscription for its response.
C37_NoRequestWithoutSubscription ==
  pull.requests > 0 => pull.subscribed

\* C37 (amended): on the first connection and on every reconnection the
\* subscription is made before the request is published: whenever a request
\* reaches the dashboard the subscription of that connection is active, and
\* a response is lost only in a pull whose connection has dropped.
C37_SubscribedBeforeRequest ==
  /\ [][pull'.requests > pull.requests => pull.online /\ pull.subscribed]_vars
  /\ [](hist.lost > 0 => hist.drops > 0)

\* after a connection loss the pull has connected again, and the broker has
\* handled both calls of the second on_connect
C37_Witness ==
  /\ hist.drops > 0
  /\ pull.online
  /\ pull.out = <<>>
  /\ pull.subscribed
  /\ pull.requests > 0

(* --------------------------- specifications ---------------------------- *)
\* the recorder alone, calls one after the other, around midnight
RecNextSerial ==
  \/ Tick(MaxElapsed)
  \/ AddRecord(CallArgs, MaxElapsed, {0} \cup TickSteps, MaxRecs)

SpecSerial == InitAt(NightStart) /\ [][RecNextSerial]_vars

\* the same, every call so short that the clock does not move during it
RecNextInstant ==
  \/ Tick(MaxElapsed)
  \/ AddRecord(CallArgs, MaxElapsed, {0}, MaxRecs)

SpecSerialInstant == InitAt(NightStart) /\ [][RecNextInstant]_vars

\* the recorder alone, calls overlapping, within one calendar day
RecNextOverlap ==
  \/ Tick(MaxElapsed)
  \/ \E t \in Threads : AddBegin(t, CallArgs)
  \/ \E t \in Threads : AddReadLast(t)
  \/ \E t \in Threads : AddFinish(t)

SpecOverlap == InitAt(NoonStart) /\ [][RecNextOverlap]_vars

\* one recorder thread, the LAN loop, the link and the receiver
Next ==
  \/ Tick(MaxSyncElapsed)
  \/ AddRecord(SyncArgs, MaxSyncElapsed, {0} \cup TickSteps, MaxRecs)
  \/ Start
  \/ Stop
  \/ LoopTop
  \/ SyncFetch
  \/ PostDelivered
  \/ PostFailed
  \/ PostReturns
  \/ Sleep
  \/ LanDrops
  \/ LanReturns

Spec == Init /\ [][Next]_vars

\* the store's callers alone: construction on a new or an older file, the
\* recorder, and the three marking operations with any id list
FlagsNext ==
  \/ InitDb
  \/ Tick(MaxSyncElapsed)
  \/ AddRecord(CallArgs, MaxSyncElapsed, {0}, MaxRecs)
  \/ MarkLan(IdSets)
  \/ MarkMqtt(IdSets)
  \/ MarkAsSynced(IdSets)

InitFlags ==
  /\ InitRest(NoonStart)
  /\ \E f \in {NoFile, LegacyFile} : shifts = f.shifts /\ cols = f.cols /\ log = f.log

SpecFlags == InitFlags /\ [][FlagsNext]_vars

\* the store after add_record has been called for one user once a minute,
\* n times, the last call a minute before noon
BacklogStore(n) ==
  LET a == [device_id |-> "1", name |-> "Alice", user_id |-> "u1", confidence |-> 95]
      RECURSIVE After(_)
      After(k) ==
        IF k = 0 THEN <<>>
        ELSE LET lg == After(k - 1)
                 dt_now == NoonStart - CooldownSecs * (n - k + 1)
             IN AddOutcome(lg, <<DefaultShift>>, a, dt_now,
                           LastPunch(lg, EffectiveUser(a), DateOf(dt_now), 0)).log
  IN After(n)

\* the store BacklogStore(n), row by row: call k comes a minute after call
\* k - 1, whose punch, IN for odd k - 1, is the user's last
BacklogRows(n) ==
  LET a == [device_id |-> "1", name |-> "Alice", user_id |-> "u1", confidence |-> 95]
  IN [k \in 1..n |->
        NewRow([i \in 1..(k - 1) |-> i], <<DefaultShift>>, a,
               NoonStart - CooldownSecs * (n - k + 1),
               IF k = 1 THEN <<>>
               ELSE <<[punch_type |-> IF k % 2 = 0 THEN "IN" ELSE "OUT"]>>)]

\* the loop is running, the receiver has been unreachable while a full
\* batch of punches was stored
InitLive ==
  /\ now = NoonStart
  /\ shifts = <<DefaultShift>>
  /\ cols = TableColumns
  /\ users = <<>>
  /\ pull = IdlePull
  /\ log = BacklogRows(SyncLimit)
  /\ call = [t \in Threads |-> IdleCall]
  /\ running = TRUE
  /\ upc = "top"
  /\ batch = <<>>
  /\ resp = 0
  /\ lanUp = FALSE
  /\ outages = 0
  /\ serverLog = <<>>
  /\ hist = [loopMarked |-> {}, failedIds |-> <<>>, retryOf |-> <<>>, fetched |-> <<>>,
             duringSend |-> {}, ref |-> log, ret |-> 0, ref_ret |-> 0, calls |-> 0,
             op |-> "add_record", status |-> NoStatus, query |-> NoQuery, user_list |-> <<>>, fault |-> "",
             faults |-> 0, stopped |-> FALSE, messages |-> 0, pull_users |-> <<>>,
             cycle |-> NoCycle, rosters |-> 0, payload |-> NoPayload,
             drops |-> 0, lost |-> 0]

\* the status engine alone: a punch at any second of the day, against the
\* seeded shift or another one
InitStatus ==
  /\ \E t \in 0..(DaySecs - 1) : InitRest(t)
  /\ shifts \in {<<DefaultShift>>, <<EveningShift>>}
  /\ cols = TableColumns
  /\ log = <<>>

SpecStatus == InitStatus /\ [][StatusCall]_vars

\* the LAN loop kept running and scheduled, the link and the recorder
LoopStep ==
  \/ LoopTop
  \/ SyncFetch
  \/ PostDelivered
  \/ PostFailed
  \/ PostReturns
  \/ Sleep

LiveNext ==
  \/ LoopStep
  \/ LanDrops
  \/ LanReturns
  \/ AddRecord(CallArgs, 0, {0}, SyncLimit + 2)

\* the limits a query is called with, and the id lists marked from outside
\* the loop before it
QueryLimits == {0, 1, SyncLimit, SyncLimit + MaxRecs}
QueryMarks == {{2}, {1, 3}}
QueryLanMarks == {{SyncLimit}}

\* more punches than one batch holds are stored, none sent yet
InitQuery ==
  /\ InitRest(NoonStart)
  /\ shifts = <<DefaultShift>>
  /\ cols = TableColumns
  /\ log = BacklogRows(SyncLimit + 2)

\* the loop and the link, markings from outside the loop, and one query of
\* the store as they left it
QueryNext ==
  \/ hist.query = NoQuery /\ Start
  \/ hist.query = NoQuery /\ LoopTop
  \/ hist.query = NoQuery /\ SyncFetch
  \/ hist.query = NoQuery /\ PostDelivered
  \/ hist.query = NoQuery /\ PostFailed
  \/ hist.query = NoQuery /\ PostReturns
  \/ hist.query = NoQuery /\ Sleep
  \/ hist.query = NoQuery /\ LanDrops
  \/ hist.query = NoQuery /\ LanReturns
  \/ hist.query = NoQuery /\ MarkLan(QueryLanMarks)
  \/ hist.query = NoQuery /\ MarkMqtt(QueryMarks)
  \/ GetUnsyncedLan(QueryLimits)
  \/ GetUnsyncedMqtt(QueryLimits)

SpecQuery == InitQuery /\ [][QueryNext]_vars

\* the roster arriving, repeatedly, at an initialized store
RosterNext ==
  \/ Tick(MaxSyncElapsed)
  \/ UpsertUsers(RosterLists)

SpecRoster == Init /\ [][RosterNext]_vars

\* the lists of one entry
SingleLists == {l \in RosterLists : Len(l) = 1}

\* the initialization run on a new or an older file and run again later,
\* with punches recorded and marked and roster entries stored in between
ReinitNext ==
  \/ InitDb
  \/ AddRecord(CallArgs, 0, {0}, MaxRecs)
  \/ MarkLan(IdSets)
  \/ UpsertUsers(SingleLists)

SpecReinit == InitFlags /\ [][ReinitNext]_vars

\* a step of the loop thread, failing calls included
FaultyLoopStep ==
  \/ LoopStep
  \/ ProbeRaises
  \/ StoreRaises
  \/ PayloadRaises
  \/ MarkRaises

\* the loop started and stopped, the link, the recorder and calls that raise
FaultsNext ==
  \/ FaultyLoopStep
  \/ Start
  \/ Stop
  \/ LanDrops
  \/ LanReturns
  \/ AddRecord(SyncArgs, 0, {0}, MaxRecs)

SpecFaults == Init /\ [][FaultsNext]_vars /\ WF_vars(FaultyLoopStep)

\* the uploader started, stopped and started again, with the link and the
\* recorder
StopNext ==
  \/ Start
  \/ Stop
  \/ StartAgain
  \/ LoopStep
  \/ LanDrops
  \/ LanReturns
  \/ AddRecord(SyncArgs, 0, {0}, MaxRecs)

SpecStop == Init /\ [][StopNext]_vars

\* a step of main() of the roster pull
PullStep ==
  \/ PullWaitConnected
  \/ PullWait
  \/ PullStop
  \/ PullSummary

\* the roster pull run again and again, the broker's callbacks in between
PullNext ==
  \/ PullMain
  \/ OnConnect
  \/ OnMessage(PullPayloads)
  \/ PullStep

\* the roster pull with entries under the alternative keys
AliasNext ==
  \/ PullMain
  \/ OnConnect
  \/ OnMessage(AliasPayloads)
  \/ PullStep

SpecAlias == Init /\ [][AliasNext]_vars

\* the loop kept scheduled, the link, and a recorder that also stores
\* punches the receiver rejects
RejectNext ==
  \/ Start
  \/ LoopStep
  \/ LanDrops
  \/ LanReturns
  \/ AddRecord(SyncArgs, 0, {0}, MaxRecs)

SpecReject == Init /\ [][RejectNext]_vars /\ WF_vars(LoopStep)

\* the roster pull, the broker, the dashboard simulator and a connection
\* that can drop
SessionNext ==
  \/ PullMain
  \/ OnConnect
  \/ BrokerTakes
  \/ DashboardResponds
  \/ ConnectionLost
  \/ PullStep

SpecSession == Init /\ [][SessionNext]_vars

SpecPull == Init /\ [][PullNext]_vars /\ WF_vars(PullStep)

\* the recorder alone, called for events with and without identity
IdentityNext ==
  \/ Tick(MaxElapsed)
  \/ AddRecord(CallArgs \cup NoIdentityArgs, MaxElapsed, {0} \cup TickSteps, MaxRecs)

SpecIdentity == Init /\ [][IdentityNext]_vars

\* the recorder, the LAN loop and the receiver when no answer is lost: the
\* link does not drop between the arrival of a request and its answer
CommonNext ==
  \/ Tick(MaxSyncElapsed)
  \/ AddRecord(SyncArgs, MaxSyncElapsed, {0} \cup TickSteps, MaxRecs)
  \/ Start
  \/ Stop
  \/ LoopTop
  \/ SyncFetch
  \/ PostDelivered
  \/ PostFailed
  \/ PostReturns
  \/ Sleep
  \/ upc # "recv" /\ LanDrops
  \/ LanReturns

SpecCommon == Init /\ [][CommonNext]_vars

\* the loop, started and stopped, and the link, over a store that holds more
\* punches than one batch
CycleNext ==
  \/ Start
  \/ Stop
  \/ LoopStep
  \/ LanDrops
  \/ LanReturns

SpecCycle == InitQuery /\ [][CycleNext]_vars

\* the recorder alone, started shortly before a boundary of the status rules
InitDerive == \E t0 \in StatusStarts : InitAt(t0)

SpecDerive == InitDerive /\ [][RecNextSerial]_vars

\* construction on a new file, an older file or a file with two shifts, and
\* the recorder
InitShifts ==
  /\ InitRest(NoonStart)
  /\ \E f \in {NoFile, LegacyFile, ConfiguredFile} :
       shifts = f.shifts /\ cols = f.cols /\ log = f.log

ShiftsNext ==
  \/ InitDb
  \/ Tick(MaxSyncElapsed)
  \/ AddRecord(CallArgs, MaxSyncElapsed, {0}, MaxRecs)

SpecShifts == InitShifts /\ [][ShiftsNext]_vars

SpecLive == InitLive /\ [][LiveNext]_vars /\ WF_vars(LoopStep)

=============================================================================
